----------------------------- MODULE MainProofs -----------------------------
(***************************************************************************)
(* The main goroutine calls package daemon as module Daemon lets a caller  *)
(* do, so the theorems of DaemonProofs hold of the whole program; and its  *)
(* kill loop never finds a nil Process.  The two are proved together: a    *)
(* nil Process would be a step that Daemon does not have.                  *)
(***************************************************************************)
EXTENDS Main, SupervisionProofs

USE DEF fieldVars, dcmdVars, runVars, waitVars, restVars, envVars, histVars, mainVars

\* The commands the kill loop still has to visit are cancelled.  One whose Status it
\* has read to be Running has a process, and keeps its exec.Cmd: its goroutine is
\* still waiting, or has seen the exit, or has given it up.
KillInv ==
  /\ \A d \in todo \cup picked : d \in DCmd /\ GenOf[d] \in cancelled
  /\ \A d \in picked : /\ cmd[d] # "fresh"
                       /\ wpc[d] \in {"wait", "report"} \/ ended[d] # "no"
  /\ panicked # "nil Process"

MainInv == IInv /\ KillInv

\* The invariant holds at the start.
LEMMA MainInvInit == MainInit => MainInv
<1> SUFFICES ASSUME MainInit PROVE KillInv
  BY InductiveInit DEF MainInit, MainInv
<1>1. QED
  BY DEF MainInit, Init, KillInv

\* No step of the main goroutine is foreign to Daemon.
LEMMA MainStepIsDaemonStep ==
  ASSUME MainInv, [MainNext]_allVars
  PROVE  [Next]_vars
<1>1. CASE MainLoop /\ panicked = "no"
  BY <1>1 DEF MainLoop, MainRun, Awake, WebServerExited, LoadFails, LoadOK, AllKilled,
     MainReloadClose, MainReloadSwap, TerminateCancel, KillGroup, Exit, Next, Caller
<1>2. CASE Hangup \/ Terminate
  BY <1>2 DEF Hangup, Terminate
<1>3. ASSUME NEW d \in DCmd, KillLoop(d) PROVE [Next]_vars
  <2>1. d \in picked => cmd[d] # "fresh"
    BY DEF MainInv, KillInv
  <2>2. Kill(d) => UNCHANGED vars
    BY <2>1 DEF Kill, vars
  <2>3. QED
    BY <1>3, <2>2 DEF KillLoop, KillSkip, KillPick
<1>4. ASSUME NEW d \in DCmd, Killer(d) PROVE [Next]_vars
  BY <1>4 DEF Killer, KillerReturns, KillerWaits, KillerTimeout
<1>5. CASE DaemonStep /\ panicked = "no"
  BY <1>5 DEF DaemonStep, Next
<1>6. CASE UNCHANGED allVars
  BY <1>6 DEF allVars
<1>7. QED
  BY <1>1, <1>2, <1>3, <1>4, <1>5, <1>6 DEF MainNext

\* A step of a command's goroutines leaves a picked command with its exec.Cmd.
LEMMA PickedStays ==
  ASSUME IInv, KillInv, NEW d \in picked, DaemonStep
  PROVE  /\ cmd'[d] # "fresh"
         /\ wpc'[d] \in {"wait", "report"} \/ ended'[d] # "no"
<1>1. /\ d \in DCmd /\ GenOf[d] \in cancelled /\ cmd[d] # "fresh"
      /\ wpc[d] \in {"wait", "report"} \/ (ended[d] # "no" /\ wpc[d] = "idle")
      /\ rpc[d] = "idle"
  BY DEF IInv, OneSupervisor, HandsInv, KillInv
<1>2. CASE \E e \in DCmd : startAndWait(e)
  <2>1. PICK e \in DCmd : startAndWait(e)
    BY <1>2
  <2>2. CASE e = d
    <3>1. CASE WaitReturns(d)
      BY <1>1, <3>1 DEF IInv, TypeOK, WaitReturns
    <3>2. CASE Report(d)
      BY <1>1, <3>2 DEF IInv, TypeOK, Report
    <3>3. QED
      BY <1>1, <2>1, <2>2, <3>1, <3>2 DEF startAndWait, LogFails, StartFails, StartOK,
         SetRunning, SendToParked, SendToBuffer, SendOnClosed
  <2>3. CASE e # d
    <3>1. /\ wpc' = wpc \/ \E x : wpc' = [wpc EXCEPT ![e] = x]
          /\ cmd' = cmd \/ \E x : cmd' = [cmd EXCEPT ![e] = x]
          /\ ended' = ended \/ \E x : ended' = [ended EXCEPT ![e] = x]
      BY <2>1 DEF startAndWait, LogFails, StartFails, StartOK, SetRunning, WaitReturns,
         Report, SendToParked, SendToBuffer, SendOnClosed
    <3>2. QED
      BY <1>1, <2>3, <3>1 DEF IInv, TypeOK
  <2>4. QED
    BY <2>2, <2>3
<1>3. CASE \E e \in DCmd : Restarter(e)
  <2>1. PICK e \in DCmd : Restarter(e)
    BY <1>3
  <2>2. e # d
    BY <1>1, <2>1 DEF Restarter, RestartCancelled, RestartDue, RestartPark, TimerFires, Restart
  <2>3. /\ wpc' = wpc \/ \E x : wpc' = [wpc EXCEPT ![e] = x]
        /\ cmd' = cmd \/ \E x : cmd' = [cmd EXCEPT ![e] = x]
        /\ ended' = ended \/ \E x : ended' = [ended EXCEPT ![e] = x]
    BY <2>1 DEF Restarter, RestartCancelled, RestartDue, RestartPark, TimerFires, Restart
  <2>4. QED
    BY <1>1, <2>2, <2>3 DEF IInv, TypeOK
<1>4. CASE UNCHANGED <<wpc, cmd, ended>>
  BY <1>1, <1>4
<1>5. QED
  BY <1>2, <1>3, <1>4 DEF DaemonStep, resetLimiter, Tick, Consumer, RunSelect, RunReturn, RunReceive,
     RunReceiveNil, RunPark, ChildExit

\* Every step of the program keeps the invariant.
LEMMA MainInvStep == MainInv /\ [MainNext]_allVars => MainInv'
<1> SUFFICES ASSUME MainInv, [MainNext]_allVars PROVE KillInv'
  BY MainStepIsDaemonStep, InductiveStep DEF MainInv
<1>1. CASE LoadOK
  <2>1. dcmds = NewDCmds(gen) /\ UNCHANGED <<picked, cmd, wpc, panicked>>
    BY <1>1 DEF MainInv, IInv, GenerationsInv, LoadOK, Cancel
  <2>2. todo' = dcmds /\ cancelled' = cancelled \cup {gen}
    BY <1>1 DEF LoadOK, Cancel
  <2>3. \A d \in picked : ended[d] # "no" => ended'[d] # "no"
    BY <1>1 DEF MainInv, KillInv, IInv, TypeOK, LoadOK, Cancel
  <2>4. QED
    BY <2>1, <2>2, <2>3 DEF MainInv, KillInv, NewDCmds
<1>2. CASE TerminateCancel
  <2>1. UNCHANGED <<todo, picked, cmd, wpc, panicked>> /\ cancelled' = cancelled \cup {gen}
    BY <1>2 DEF TerminateCancel, Cancel
  <2>2. \A d \in picked : ended[d] # "no" => ended'[d] # "no"
    BY <1>2 DEF MainInv, KillInv, IInv, TypeOK, TerminateCancel, Cancel
  <2>3. QED
    BY <2>1, <2>2 DEF MainInv, KillInv
<1>3. CASE MainReloadClose
  <2>1. UNCHANGED <<todo, picked, cmd, wpc, cancelled, panicked>>
    BY <1>3 DEF MainReloadClose, ReloadClose
  <2>2. \A d \in picked : ended[d] # "no" => ended'[d] # "no"
    BY <1>3 DEF MainInv, KillInv, IInv, TypeOK, MainReloadClose, ReloadClose
  <2>3. QED
    BY <2>1, <2>2 DEF MainInv, KillInv
<1>4. CASE MainRun
  <2>1. UNCHANGED <<todo, picked, cmd, ended, cancelled, panicked>>
    BY <1>4 DEF MainRun, Run
  <2>2. phase = "built" /\ dcmds = NewDCmds(gen)
    BY <1>4 DEF MainInv, IInv, GenerationsInv, MainRun, Run
  <2>3. gen \notin cancelled
    BY <2>2 DEF MainInv, IInv, TypeOK, GenerationsInv, Gen
  <2>4. \A d \in picked : wpc'[d] = wpc[d]
    BY <1>4, <2>2, <2>3 DEF MainInv, KillInv, NewDCmds, MainRun, Run
  <2>5. QED
    BY <2>1, <2>4 DEF MainInv, KillInv
<1>5. CASE \/ Awake \/ WebServerExited \/ LoadFails \/ AllKilled \/ MainReloadSwap
           \/ KillGroup \/ Exit \/ Hangup \/ Terminate
           \/ \E d \in DCmd : Killer(d)
           \/ UNCHANGED allVars
  <2>1. UNCHANGED <<todo, picked, cmd, wpc, ended, cancelled, panicked>>
    BY <1>5 DEF Awake, WebServerExited, LoadFails, AllKilled, MainReloadSwap, ReloadSwap,
       KillGroup, Exit, Hangup, Terminate, Killer, KillerReturns, KillerWaits,
       KillerTimeout, vars, allVars
  <2>2. QED
    BY <2>1 DEF MainInv, KillInv
<1>6. ASSUME NEW d \in DCmd, KillLoop(d) PROVE KillInv'
  <2>1. d \in picked => cmd[d] # "fresh"
    BY DEF MainInv, KillInv
  <2>2. CASE KillPick(d)
    <3>1. wpc[d] = "wait" /\ cmd[d] = "started"
      BY <2>2 DEF MainInv, IInv, WaiterInv, KillPick
    <3>2. QED
      BY <2>2, <3>1 DEF MainInv, KillInv, KillPick, vars
  <2>3. CASE KillSkip(d)
    BY <2>3 DEF MainInv, KillInv, KillSkip, vars
  <2>4. CASE Kill(d)
    BY <2>1, <2>4 DEF MainInv, KillInv, Kill
  <2>5. QED
    BY <1>6, <2>2, <2>3, <2>4 DEF KillLoop
<1>7. CASE DaemonStep
  <2>1. \A d \in picked : /\ cmd'[d] # "fresh"
                          /\ wpc'[d] \in {"wait", "report"} \/ ended'[d] # "no"
    BY <1>7, PickedStays DEF MainInv
  <2>2. UNCHANGED <<todo, picked, cancelled>>
    BY <1>7 DEF DaemonStep, resetLimiter, Tick, Consumer, RunSelect, RunReturn, RunReceive,
       RunReceiveNil, RunPark, startAndWait, LogFails, StartFails, StartOK, SetRunning,
       WaitReturns, Report, SendToParked, SendToBuffer, SendOnClosed, Restarter,
       RestartCancelled, RestartDue, RestartPark, TimerFires, Restart, ChildExit
  <2>3. panicked' # "nil Process"
    BY <1>7 DEF MainInv, KillInv, DaemonStep, resetLimiter, Tick, Consumer, RunSelect, RunReturn,
       RunReceive, RunReceiveNil, RunPark, startAndWait, LogFails, StartFails, StartOK,
       SetRunning, WaitReturns, Report, SendToParked, SendToBuffer, SendOnClosed, Restarter,
       RestartCancelled, RestartDue, RestartPark, TimerFires, Restart, ChildExit
  <2>4. QED
    BY <2>1, <2>2, <2>3 DEF MainInv, KillInv
<1>8. QED
  BY <1>1, <1>2, <1>3, <1>4, <1>5, <1>6, <1>7 DEF MainNext, MainLoop

\* The program is a run of package daemon with a caller that keeps its protocol
\* (Run; cancel, Reload, Run; ...): what is proved of Spec holds of the program.
THEOREM MainImplementsDaemon == MainSpec => Spec
<1>1. MainInit => Init
  BY DEF MainInit
<1>2. MainInv /\ [MainNext]_allVars => [Next]_vars
  BY MainStepIsDaemonStep
<1>3. QED
  BY <1>1, <1>2, MainInvInit, MainInvStep, PTL DEF MainSpec, Spec

\* The kill loop of a reload never dereferences a nil Process, although it reads
\* Status and Cmd without a lock while the goroutines of package daemon write them.
THEOREM KillSafe == MainSpec => []KillHasProcess
<1>1. MainInv => KillHasProcess
  BY DEF MainInv, KillInv, KillHasProcess
<1>2. QED
  BY <1>1, MainInvInit, MainInvStep, PTL DEF MainSpec

\* The main goroutine keeps the protocol of package daemon: it calls Run, cancel and
\* Reload in their order, whatever signals arrive, and its variables keep their types.
THEOREM ProtocolKept == MainSpec => []MainTypeOK
<1>1. MainInit => MainTypeOK
  <2> SUFFICES ASSUME MainInit PROVE MainTypeOK
    OBVIOUS
  <2>1. phase = MainPhase
    BY DEF MainInit, Init, MainPhase
  <2>2. termAsked \in BOOLEAN
    BY DEF MainInit
  <2>3. QED
    BY <2>1, <2>2 DEF MainInit, MainTypeOK, MainPCs, KillerPCs
<1>2. MainInv /\ MainTypeOK /\ [MainNext]_allVars => MainTypeOK'
  <2> SUFFICES ASSUME MainInv, MainTypeOK, [MainNext]_allVars PROVE MainTypeOK'
    OBVIOUS
  <2> USE DEF MainTypeOK, MainPhase, MainPCs, KillerPCs
  <2>1. CASE MainLoop
    <3>1. dcmds \in SUBSET DCmd
      BY DEF MainInv, IInv, TypeOK
    <3>2. CASE MainRun
      BY <3>2 DEF MainRun, Run
    <3>3. CASE LoadOK
      BY <3>1, <3>3 DEF LoadOK, Cancel
    <3>4. CASE TerminateCancel
      BY <3>4 DEF TerminateCancel, Cancel
    <3>5. CASE MainReloadClose
      BY <3>5 DEF MainReloadClose, ReloadClose
    <3>6. CASE MainReloadSwap
      BY <3>6 DEF MainReloadSwap, ReloadSwap
    <3>7. CASE Awake \/ WebServerExited \/ LoadFails \/ AllKilled
      BY <3>7 DEF Awake, WebServerExited, LoadFails, AllKilled, vars
    <3>8. CASE KillGroup \/ Exit
      BY <3>8 DEF KillGroup, Exit, vars
    <3>9. QED
      BY <2>1, <3>2, <3>3, <3>4, <3>5, <3>6, <3>7, <3>8 DEF MainLoop
  <2>2. CASE Hangup \/ Terminate
    <3>1. phase' = phase /\ mpc' \in {mpc, IF mpc = "select" THEN "load" ELSE mpc,
                                     IF mpc = "select" THEN "terminate" ELSE mpc}
      BY <2>2 DEF Hangup, Terminate, vars
    <3>2. phase' = MainPhase'
      BY <3>1
    <3>3. termAsked' \in BOOLEAN
      BY <2>2, Zenon DEF Hangup, Terminate
    <3>4. UNCHANGED <<todo, picked, killer, termed>> /\ signals' \in Nat
      BY <2>2 DEF Hangup, Terminate
    <3>5. QED
      BY <3>1, <3>2, <3>3, <3>4
  <2>3. ASSUME NEW d \in DCmd, KillLoop(d) PROVE MainTypeOK'
    BY <2>3 DEF KillLoop, KillSkip, KillPick, Kill, vars
  <2>4. ASSUME NEW d \in DCmd, Killer(d) PROVE MainTypeOK'
    BY <2>4 DEF Killer, KillerReturns, KillerWaits, KillerTimeout, vars
  <2>5. CASE DaemonStep
    <3>1. UNCHANGED <<phase, mpc, todo, picked, killer, termAsked, signals>>
      BY <2>5 DEF DaemonStep, resetLimiter, Tick, Consumer, RunSelect, RunReturn, RunReceive,
         RunReceiveNil, RunPark, startAndWait, LogFails, StartFails, StartOK, SetRunning,
         WaitReturns, Report, SendToParked, SendToBuffer, SendOnClosed, Restarter,
         RestartCancelled, RestartDue, RestartPark, TimerFires, Restart, ChildExit
    <3>2. termed' \in SUBSET DCmd
      BY <2>5 DEF DaemonStep
    <3>3. QED
      BY <3>1, <3>2
  <2>6. CASE UNCHANGED allVars
    BY <2>6 DEF allVars, vars
  <2>7. QED
    BY <2>1, <2>2, <2>3, <2>4, <2>5, <2>6 DEF MainNext
<1>3. QED
  BY <1>1, <1>2, MainInvInit, MainInvStep, PTL DEF MainSpec

\* A command that has got a SIGTERM is cancelled, and its goroutine is on its way to
\* see the process exit and to pass the command on to nobody.
TermInv ==
  \A d \in termed :
    /\ d \in DCmd
    /\ GenOf[d] \in cancelled
    /\ wpc[d] \in {"started", "wait", "report"} \/ ended[d] # "no"

\* Such a command stays what it is, whatever the goroutines of the daemon do, and gets
\* no new process.
LEMMA TermedStays ==
  ASSUME IInv, NEW d \in DCmd, GenOf[d] \in cancelled, DaemonStep,
         wpc[d] \in {"started", "wait", "report"} \/ ended[d] # "no"
  PROVE  /\ wpc'[d] \in {"started", "wait", "report"} \/ ended'[d] # "no"
         /\ live'[d] <= live[d]
<1>1. /\ wpc[d] \in {"started", "wait", "report"} \/ (ended[d] # "no" /\ wpc[d] = "idle")
      /\ rpc[d] = "idle"
      /\ live[d] \in Nat
  BY DEF IInv, TypeOK, OneSupervisor, HandsInv
<1>2. CASE \E e \in DCmd : startAndWait(e)
  <2>1. PICK e \in DCmd : startAndWait(e)
    BY <1>2
  <2>2. CASE e = d
    <3>1. CASE SetRunning(d)
      BY <1>1, <3>1 DEF IInv, TypeOK, SetRunning
    <3>2. CASE WaitReturns(d)
      BY <1>1, <3>2 DEF IInv, TypeOK, WaitReturns
    <3>3. CASE Report(d)
      BY <1>1, <3>3 DEF IInv, TypeOK, Report
    <3>4. QED
      BY <1>1, <2>1, <2>2, <3>1, <3>2, <3>3 DEF startAndWait, LogFails, StartFails, StartOK,
         SendToParked, SendToBuffer, SendOnClosed
  <2>3. CASE e # d
    <3>1. /\ wpc' = wpc \/ \E x : wpc' = [wpc EXCEPT ![e] = x]
          /\ live' = live \/ \E x : live' = [live EXCEPT ![e] = x]
          /\ ended' = ended \/ \E x : ended' = [ended EXCEPT ![e] = x]
      BY <2>1 DEF startAndWait, LogFails, StartFails, StartOK, SetRunning, WaitReturns,
         Report, SendToParked, SendToBuffer, SendOnClosed, envVars
    <3>2. QED
      BY <1>1, <2>3, <3>1 DEF IInv, TypeOK
  <2>4. QED
    BY <2>2, <2>3
<1>3. CASE \E e \in DCmd : Restarter(e)
  <2>1. PICK e \in DCmd : Restarter(e)
    BY <1>3
  <2>2. e # d
    BY <1>1, <2>1 DEF Restarter, RestartCancelled, RestartDue, RestartPark, TimerFires, Restart
  <2>3. /\ wpc' = wpc \/ \E x : wpc' = [wpc EXCEPT ![e] = x]
        /\ live' = live
        /\ ended' = ended \/ \E x : ended' = [ended EXCEPT ![e] = x]
    BY <2>1 DEF Restarter, RestartCancelled, RestartDue, RestartPark, TimerFires, Restart
  <2>4. QED
    BY <1>1, <2>2, <2>3 DEF IInv, TypeOK
<1>4. CASE \E e \in DCmd : ChildExit(e)
  <2>1. UNCHANGED <<wpc, ended>>
    BY <1>4 DEF ChildExit
  <2>2. live'[d] <= live[d]
    BY <1>1, <1>4 DEF IInv, TypeOK, ChildExit
  <2>3. QED
    BY <1>1, <2>1, <2>2
<1>5. CASE UNCHANGED <<wpc, live, ended>>
  BY <1>1, <1>5
<1>6. QED
  BY <1>2, <1>3, <1>4, <1>5 DEF DaemonStep, resetLimiter, Tick, Consumer, RunSelect, RunReturn,
     RunReceive, RunReceiveNil, RunPark

\* Every step of the program keeps TermInv, and starts no process for these commands.
LEMMA TermStep ==
  ASSUME MainInv, MainTypeOK, TermInv, [MainNext]_allVars
  PROVE  TermInv' /\ \A d \in termed : live'[d] <= live[d]
<1>1. CASE DaemonStep
  <2>1. termed' \subseteq termed /\ cancelled' = cancelled
    BY <1>1 DEF DaemonStep, resetLimiter, Tick, Consumer, RunSelect, RunReturn, RunReceive,
       RunReceiveNil, RunPark, startAndWait, LogFails, StartFails, StartOK, SetRunning,
       WaitReturns, Report, SendToParked, SendToBuffer, SendOnClosed, Restarter,
       RestartCancelled, RestartDue, RestartPark, TimerFires, Restart, ChildExit
  <2>2. \A d \in termed :
          /\ wpc'[d] \in {"started", "wait", "report"} \/ ended'[d] # "no"
          /\ live'[d] <= live[d]
    BY <1>1, TermedStays DEF MainInv, TermInv
  <2>3. QED
    BY <2>1, <2>2 DEF TermInv
<1> DEFINE Kept == /\ termed' = termed
                   /\ live' = live
                   /\ cancelled \subseteq cancelled'
                   /\ \A d \in termed : wpc'[d] = wpc[d]
                   /\ \A d \in termed : ended[d] # "no" => ended'[d] # "no"
<1>2. Kept => TermInv' /\ \A d \in termed : live'[d] <= live[d]
  BY DEF TermInv, MainInv, IInv, TypeOK
<1>3. \A d \in DCmd : live[d] > 0 => wpc[d] \in {"started", "wait"} /\ GenOf[d] \in 1..gen
  <2> SUFFICES ASSUME NEW d \in DCmd, live[d] > 0
               PROVE  wpc[d] \in {"started", "wait"} /\ GenOf[d] \in 1..gen
    OBVIOUS
  <2>1. wpc[d] \in {"started", "wait"}
    BY DEF MainInv, IInv, TypeOK, WaiterInv
  <2>2. GenOf[d] \in Gen /\ gen \in Gen /\ ~(GenOf[d] > gen)
    BY <2>1, DaemonAssumption DEF MainInv, IInv, TypeOK, UnbornInv, Unborn
  <2>3. QED
    BY <2>1, <2>2 DEF Gen
<1>4. CASE MainRun
  <2>1. phase = "built" /\ dcmds = NewDCmds(gen) /\ gen \notin cancelled
    BY <1>4 DEF MainInv, IInv, TypeOK, Gen, GenerationsInv, MainRun, Run
  <2>2. \A d \in termed : wpc'[d] = wpc[d]
    BY <1>4, <2>1 DEF TermInv, NewDCmds, MainRun, Run
  <2>3. Kept
    BY <1>4, <2>2 DEF MainRun, Run
  <2>4. QED
    BY <1>2, <2>3
<1>5. CASE LoadOK \/ TerminateCancel
  <2>1. \A d \in DCmd : ended[d] # "no" => ended'[d] # "no"
    BY <1>5 DEF MainInv, IInv, TypeOK, LoadOK, TerminateCancel, Cancel
  <2>2. Kept
    BY <1>5, <2>1 DEF TermInv, LoadOK, TerminateCancel, Cancel
  <2>3. QED
    BY <1>2, <2>2
<1>6. CASE MainReloadClose \/ MainReloadSwap
  <2>1. \A d \in DCmd : ended[d] # "no" => ended'[d] # "no"
    BY <1>6 DEF MainInv, IInv, TypeOK, MainReloadClose, ReloadClose, MainReloadSwap, ReloadSwap
  <2>2. Kept
    BY <1>6, <2>1 DEF TermInv, MainReloadClose, ReloadClose, MainReloadSwap, ReloadSwap
  <2>3. QED
    BY <1>2, <2>2
<1>7. CASE KillGroup
  <2>1. cancelled = 1..gen
    BY <1>7 DEF MainInv, IInv, TypeOK, Gen, GenerationsInv, MainTypeOK, MainPhase, KillGroup
  <2>2. UNCHANGED vars /\ termed' = termed \cup {d \in DCmd : live[d] > 0}
    BY <1>7 DEF KillGroup
  <2>3. QED
    BY <1>3, <2>1, <2>2 DEF vars, TermInv, MainInv, IInv, TypeOK
<1>8. ASSUME NEW d \in DCmd, KillLoop(d)
      PROVE  TermInv' /\ \A e \in termed : live'[e] <= live[e]
  <2>1. CASE KillSkip(d) \/ KillPick(d)
    BY <1>2, <2>1 DEF KillSkip, KillPick, vars
  <2>2. CASE Kill(d)
    <3>1. UNCHANGED <<wpc, ended, live, cancelled>>
      BY <2>2 DEF Kill
    <3>2. termed' = termed \/ (termed' = termed \cup {d} /\ live[d] > 0)
      BY <2>2 DEF Kill
    <3>3. GenOf[d] \in cancelled
      BY <2>2 DEF Kill, MainInv, KillInv
    <3>4. QED
      BY <1>3, <3>1, <3>2, <3>3 DEF TermInv, MainInv, IInv, TypeOK
  <2>3. QED
    BY <1>8, <2>1, <2>2 DEF KillLoop
<1>9. CASE \/ Awake \/ WebServerExited \/ LoadFails \/ AllKilled \/ Exit \/ Hangup
           \/ Terminate \/ (\E d \in DCmd : Killer(d)) \/ UNCHANGED allVars
  BY <1>2, <1>9 DEF Awake, WebServerExited, LoadFails, AllKilled, Exit, Hangup, Terminate,
     Killer, KillerReturns, KillerWaits, KillerTimeout, vars, allVars
<1>10. QED
  BY <1>1, <1>4, <1>5, <1>6, <1>7, <1>8, <1>9 DEF MainNext, MainLoop

\* The program gives its commands the life that Supervision promises: after a reload the
\* next exit of an old command is its last.
THEOREM MainKeepsPromise == MainSpec => KeepsPromise
BY MainImplementsDaemon, PromiseKept

\* A process that was sent a SIGTERM, by the kill loop of a reload or at the end of the
\* daemon, is the last one of its command.
THEOREM TermedCorrect == MainSpec => TermedNotRestarted
<1>1. MainInit => TermInv
  BY DEF MainInit, TermInv
<1>2. MainInv /\ MainTypeOK /\ TermInv /\ [MainNext]_allVars
        => TermInv' /\ [\A d \in termed : live'[d] <= live[d]]_allVars
  BY TermStep
<1>3. QED
  BY <1>1, <1>2, MainInvInit, MainInvStep, ProtocolKept, PTL DEF MainSpec, TermedNotRestarted
=============================================================================
