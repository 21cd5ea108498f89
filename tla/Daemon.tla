------------------------------- MODULE Daemon -------------------------------
(***************************************************************************)
(* Package daemon of cmdDaemon: the goroutines that start commands, wait   *)
(* for them to exit and start them again (daemon/daemon.go,                *)
(* daemon/daemonCmd.go), under the limiter of daemon/limiter.go.           *)
(*                                                                         *)
(* The caller (main.go) builds a Daemon, calls Run, and reloads by calling *)
(* cancel, Reload and Run again.  A generation is what one such round      *)
(* creates: a context, a channel exitedCmdCh and the DaemonCmd objects.    *)
(* Nothing is locked between the caller and the goroutines, so a goroutine *)
(* of an old generation can read the fields of the new one.                *)
(*                                                                         *)
(* One action is one step between two points where another goroutine can   *)
(* interfere.  A select with several ready cases takes any of them; a      *)
(* goroutine parked in a select takes the case that becomes ready first.   *)
(***************************************************************************)
EXTENDS Limiter, FiniteSets, Sequences

CONSTANTS
  DCmd,       \* every DaemonCmd object that is ever created
  MaxGen,     \* bound: number of generations
  GenOf,      \* the generation a DaemonCmd object belongs to
  ChanCap,    \* capacity of exitedCmdCh
  MaxTime,    \* bound: the clock runs past it only for a waiting restart
  MaxResets   \* bound: number of times the reset ticker fires

Gen == 1..MaxGen

ASSUME DaemonAssumption ==
  /\ MaxGen \in Nat \ {0}
  /\ GenOf \in [DCmd -> Gen]
  /\ ChanCap \in Nat \ {0}
  /\ MaxTime \in Nat
  /\ MaxResets \in Nat

VARIABLES
  phase,      \* the caller's place in the API protocol
  gen,        \* generation whose context and channel are in d.ctx, d.exitedCmdCh
  dcmds,      \* d.DCmds
  cancelled,  \* generations whose context is done
  closed,     \* generations whose channel is closed
  queue,      \* queue[g]: buffer of the channel of generation g
  panicked,   \* the process is gone, and why
  status,     \* status[d]: dcmd.Status
  cmd,        \* cmd[d]: dcmd.Cmd, by its fields Process and ProcessState
  limiter,    \* limiter[d]: dcmd.Limiter
  logDir,     \* the commands whose logDir is set
  npc,        \* npc[g]: the loop of the Run call of generation g
  non,        \* non[g]: generation whose context and channel its select works on
  wpc,        \* wpc[d]: the goroutine in dcmd.startAndWait(ch)
  wch,        \* wch[d]: its channel ch
  rpc,        \* rpc[d]: the goroutine Run spawns to restart dcmd
  ron,        \* ron[d]: generation whose context it is parked on
  deadline,   \* deadline[d]: when its timer fires
  live,       \* live[d]: number of running processes started for dcmd (OS)
  now,        \* the clock
  ended,      \* ended[d]: why no goroutine looks after d any more (history)
  restarts,   \* restarts[d]: restarts granted to d (history)
  resets      \* number of limiter resets so far (history)

fieldVars == <<phase, gen, dcmds, cancelled, closed, logDir>>
dcmdVars  == <<status, cmd, limiter>>
runVars   == <<npc, non>>
waitVars  == <<wpc, wch>>
restVars  == <<rpc, ron, deadline>>
envVars   == <<live, now>>
histVars  == <<ended, restarts, resets>>

vars == <<fieldVars, dcmdVars, runVars, waitVars, restVars, envVars, histVars,
          queue, panicked>>

Phases      == {"built", "running", "cancelled", "closed"}
PanicKinds  == {"no", "send on closed channel", "nil DaemonCmd", "nil Process"}
CmdStates   == {"fresh", "started", "waited"}
RunPCs      == {"idle", "loop", "select", "parked", "done"}
WaitPCs     == {"idle", "start", "started", "wait", "report", "send"}
RestartPCs  == {"idle", "spawned", "parked", "due"}
EndReasons  == {"no", "log file", "limit reached", "cancelled"}

TypeOK ==
  /\ phase \in Phases
  /\ gen \in Gen
  /\ dcmds \in SUBSET DCmd
  /\ cancelled \in SUBSET Gen
  /\ closed \in SUBSET Gen
  /\ queue \in [Gen -> Seq(DCmd)]
  /\ panicked \in PanicKinds
  /\ status \in [DCmd -> {"Exited", "Running"}]
  /\ cmd \in [DCmd -> CmdStates]
  /\ limiter \in [DCmd -> LimiterState]
  /\ logDir \in SUBSET DCmd
  /\ npc \in [Gen -> RunPCs]
  /\ non \in [Gen -> Gen]
  /\ wpc \in [DCmd -> WaitPCs]
  /\ wch \in [DCmd -> Gen]
  /\ rpc \in [DCmd -> RestartPCs]
  /\ ron \in [DCmd -> Gen]
  /\ deadline \in [DCmd -> Nat]
  /\ live \in [DCmd -> Nat]
  /\ now \in Nat \ {ZeroTime}
  /\ ended \in [DCmd -> EndReasons]
  /\ restarts \in [DCmd -> Nat]
  /\ resets \in Nat

-----------------------------------------------------------------------------
(* Building, running, cancelling and reloading: the calls of package main. *)

NewDCmds(g) == {d \in DCmd : GenOf[d] = g}

\* NewDaemon: the commands of the first generation, with their log directory
Init ==
  /\ phase = "built"
  /\ gen = 1
  /\ dcmds = NewDCmds(1)
  /\ cancelled = {}
  /\ closed = {}
  /\ queue = [g \in Gen |-> <<>>]
  /\ panicked = "no"
  /\ status = [d \in DCmd |-> "Exited"]
  /\ cmd = [d \in DCmd |-> "fresh"]
  /\ limiter = [d \in DCmd |-> NewLimiter]
  /\ logDir = NewDCmds(1)
  /\ npc = [g \in Gen |-> "idle"]
  /\ non = [g \in Gen |-> 1]
  /\ wpc = [d \in DCmd |-> "idle"]
  /\ wch = [d \in DCmd |-> 1]
  /\ rpc = [d \in DCmd |-> "idle"]
  /\ ron = [d \in DCmd |-> 1]
  /\ deadline = [d \in DCmd |-> 0]
  /\ live = [d \in DCmd |-> 0]
  /\ now = 1
  /\ ended = [d \in DCmd |-> "no"]
  /\ restarts = [d \in DCmd |-> 0]
  /\ resets = 0

\* go d.Run(), with its go d.run(): one startAndWait goroutine per command.  The
\* caller sleeps for seconds after it, so these goroutines exist before it goes on.
Run ==
  /\ phase = "built"
  /\ phase' = "running"
  /\ npc' = [npc EXCEPT ![gen] = "loop"]
  /\ wpc' = [d \in DCmd |-> IF d \in dcmds THEN "start" ELSE wpc[d]]
  /\ wch' = [d \in DCmd |-> IF d \in dcmds THEN gen ELSE wch[d]]
  /\ UNCHANGED <<gen, dcmds, cancelled, closed, logDir, dcmdVars, non, restVars,
                 envVars, histVars, queue, panicked>>

\* cancel(): every goroutine parked on the context leaves its select.
Cancel ==
  /\ phase = "running"
  /\ phase' = "cancelled"
  /\ cancelled' = cancelled \cup {gen}
  /\ npc' = [g \in Gen |-> IF npc[g] = "parked" /\ non[g] = gen
                           THEN "done" ELSE npc[g]]
  /\ LET left == {d \in DCmd : rpc[d] = "parked" /\ ron[d] = gen}
     IN /\ rpc' = [d \in DCmd |-> IF d \in left THEN "idle" ELSE rpc[d]]
        /\ ended' = [d \in DCmd |-> IF d \in left THEN "cancelled" ELSE ended[d]]
  /\ UNCHANGED <<gen, dcmds, closed, logDir, dcmdVars, non, waitVars, ron, deadline,
                 envVars, restarts, resets, queue, panicked>>

\* First half of Reload: empty DCmds, close the channel and drain it.
ReloadClose ==
  /\ phase = "cancelled"
  /\ phase' = "closed"
  /\ dcmds' = {}
  /\ closed' = closed \cup {gen}
  /\ queue' = [queue EXCEPT ![gen] = <<>>]
  /\ ended' = [d \in DCmd |-> IF \E i \in DOMAIN queue[gen] : queue[gen][i] = d
                              THEN "cancelled" ELSE ended[d]]
  /\ UNCHANGED <<gen, cancelled, logDir, dcmdVars, runVars, waitVars, restVars,
                 envVars, restarts, resets, panicked>>

\* Mutant of ReloadSwap: the closed channel stays in use.
ReloadSwapSameChannel ==
  /\ phase = "closed"
  /\ gen < MaxGen
  /\ phase' = "built"
  /\ gen' = gen + 1
  /\ dcmds' = NewDCmds(gen + 1)
  /\ closed' = closed \cup {gen + 1}
  /\ UNCHANGED <<cancelled, logDir, dcmdVars, runVars, waitVars, restVars, envVars,
                 histVars, queue, panicked>>

\* Second half of Reload: a new channel, context and set of commands.  The channel
\* is stored before the context; no goroutine can tell these two stores apart.
ReloadSwap ==
  /\ phase = "closed"
  /\ gen < MaxGen
  /\ phase' = "built"
  /\ gen' = gen + 1
  /\ dcmds' = NewDCmds(gen + 1)
  /\ UNCHANGED <<cancelled, closed, logDir, dcmdVars, runVars, waitVars, restVars,
                 envVars, histVars, queue, panicked>>

-----------------------------------------------------------------------------
(* The loop of Run: it consumes exited commands.                           *)

\* The operands of the select, d.ctx.Done() and d.exitedCmdCh, are evaluated before it
\* looks at them, so a reload can replace both fields in between.  An old context with
\* a new channel adds nothing: it returns as with the old ones or receives as with the new.
RunSelect(g) ==
  /\ npc[g] = "loop"
  /\ npc' = [npc EXCEPT ![g] = "select"]
  /\ non' = [non EXCEPT ![g] = gen]
  /\ UNCHANGED <<fieldVars, dcmdVars, waitVars, restVars, envVars, histVars, queue,
                 panicked>>

RunReturn(g) ==
  /\ npc[g] = "select"
  /\ non[g] \in cancelled
  /\ npc' = [npc EXCEPT ![g] = "done"]
  /\ UNCHANGED <<fieldVars, dcmdVars, non, waitVars, restVars, envVars, histVars,
                 queue, panicked>>

\* case dcmd := <-d.exitedCmdCh: log the exit, spawn a goroutine that restarts it
RunReceive(g) ==
  /\ npc[g] = "select"
  /\ queue[non[g]] # <<>>
  /\ queue' = [queue EXCEPT ![non[g]] = Tail(@)]
  /\ rpc' = [rpc EXCEPT ![Head(queue[non[g]])] = "spawned"]
  /\ npc' = [npc EXCEPT ![g] = "loop"]
  /\ UNCHANGED <<fieldVars, dcmdVars, non, waitVars, ron, deadline, envVars,
                 histVars, panicked>>

\* A closed and drained channel yields nil, and the handler locks nil.mu.
RunReceiveNil(g) ==
  /\ npc[g] = "select"
  /\ non[g] \in closed
  /\ queue[non[g]] = <<>>
  /\ panicked' = "nil DaemonCmd"
  /\ UNCHANGED <<fieldVars, dcmdVars, runVars, waitVars, restVars, envVars, histVars,
                 queue>>

\* Mutant of RunPark: the select has no case for the context.
RunParkBlind(g) ==
  /\ npc[g] = "select"
  /\ non[g] \notin closed
  /\ queue[non[g]] = <<>>
  /\ npc' = [npc EXCEPT ![g] = "parked"]
  /\ UNCHANGED <<fieldVars, dcmdVars, non, waitVars, restVars, envVars, histVars, queue,
                 panicked>>

RunPark(g) ==
  /\ npc[g] = "select"
  /\ non[g] \notin cancelled \cup closed
  /\ queue[non[g]] = <<>>
  /\ npc' = [npc EXCEPT ![g] = "parked"]
  /\ UNCHANGED <<fieldVars, dcmdVars, non, waitVars, restVars, envVars, histVars, queue,
                 panicked>>

\* The reset ticker of a Run call: Limiter.Reset on d.DCmds as the goroutine has read it.
\* A tick it has begun to handle goes on after cancel and Reload, over the old commands.
resetLimiter(g) ==
  /\ npc[g] # "idle"
  /\ resets < MaxResets
  /\ limiter' = [d \in DCmd |-> IF GenOf[d] = g THEN NewLimiter ELSE limiter[d]]
  /\ resets' = resets + 1
  /\ UNCHANGED <<fieldVars, status, cmd, runVars, waitVars, restVars, envVars, ended,
                 restarts, queue, panicked>>

-----------------------------------------------------------------------------
(* startAndWait(ch): start the command, wait for it, report its exit.      *)

\* The log file cannot be opened: dcmd.Err is set and nothing is sent.
LogFails(d) ==
  /\ wpc[d] = "start"
  /\ d \in logDir
  /\ wpc' = [wpc EXCEPT ![d] = "idle"]
  /\ ended' = [ended EXCEPT ![d] = "log file"]
  /\ UNCHANGED <<fieldVars, dcmdVars, runVars, wch, restVars, envVars, restarts,
                 resets, queue, panicked>>

StartFails(d) ==
  /\ wpc[d] = "start"
  /\ wpc' = [wpc EXCEPT ![d] = "report"]
  /\ UNCHANGED <<fieldVars, dcmdVars, runVars, wch, restVars, envVars, histVars,
                 queue, panicked>>

StartOK(d) ==
  /\ wpc[d] = "start"
  /\ wpc' = [wpc EXCEPT ![d] = "started"]
  /\ cmd' = [cmd EXCEPT ![d] = "started"]
  /\ live' = [live EXCEPT ![d] = @ + 1]
  /\ UNCHANGED <<fieldVars, status, limiter, runVars, wch, restVars, now, histVars,
                 queue, panicked>>

SetRunning(d) ==
  /\ wpc[d] = "started"
  /\ wpc' = [wpc EXCEPT ![d] = "wait"]
  /\ status' = [status EXCEPT ![d] = "Running"]
  /\ UNCHANGED <<fieldVars, cmd, limiter, runVars, wch, restVars, envVars, histVars,
                 queue, panicked>>

\* Mutants of WaitReturns: it does not wait for the process; it leaves Status as it is.
WaitReturnsEarly(d) ==
  /\ wpc[d] = "wait"
  /\ wpc' = [wpc EXCEPT ![d] = "report"]
  /\ cmd' = [cmd EXCEPT ![d] = "waited"]
  /\ status' = [status EXCEPT ![d] = "Exited"]
  /\ UNCHANGED <<fieldVars, limiter, runVars, wch, restVars, envVars, histVars, queue,
                 panicked>>

WaitReturnsRunning(d) ==
  /\ wpc[d] = "wait"
  /\ live[d] = 0
  /\ wpc' = [wpc EXCEPT ![d] = "report"]
  /\ cmd' = [cmd EXCEPT ![d] = "waited"]
  /\ UNCHANGED <<fieldVars, status, limiter, runVars, wch, restVars, envVars, histVars,
                 queue, panicked>>

\* cmd.Wait returns: ProcessState is set and Status becomes Exited.
WaitReturns(d) ==
  /\ wpc[d] = "wait"
  /\ live[d] = 0
  /\ wpc' = [wpc EXCEPT ![d] = "report"]
  /\ cmd' = [cmd EXCEPT ![d] = "waited"]
  /\ status' = [status EXCEPT ![d] = "Exited"]
  /\ UNCHANGED <<fieldVars, limiter, runVars, wch, restVars, envVars, histVars, queue,
                 panicked>>

\* Mutant of Report: the context is not looked at.
ReportAlways(d) ==
  /\ wpc[d] = "report"
  /\ wpc' = [wpc EXCEPT ![d] = "send"]
  /\ UNCHANGED <<fieldVars, dcmdVars, runVars, wch, restVars, envVars, histVars, queue,
                 panicked>>

\* select on dcmd.ctx with a default: a cancelled command is not reported.
Report(d) ==
  /\ wpc[d] = "report"
  /\ IF GenOf[d] \in cancelled
     THEN /\ wpc' = [wpc EXCEPT ![d] = "idle"]
          /\ ended' = [ended EXCEPT ![d] = "cancelled"]
     ELSE /\ wpc' = [wpc EXCEPT ![d] = "send"]
          /\ UNCHANGED ended
  /\ UNCHANGED <<fieldVars, dcmdVars, runVars, wch, restVars, envVars, restarts,
                 resets, queue, panicked>>

\* ch <- dcmd, to a Run loop parked on ch, or to the buffer when there is room
SendToParked(d) ==
  /\ wpc[d] = "send"
  /\ wch[d] \notin closed
  /\ \E g \in Gen :
       /\ npc[g] = "parked"
       /\ non[g] = wch[d]
       /\ npc' = [npc EXCEPT ![g] = "loop"]
  /\ rpc' = [rpc EXCEPT ![d] = "spawned"]
  /\ wpc' = [wpc EXCEPT ![d] = "idle"]
  /\ UNCHANGED <<fieldVars, dcmdVars, non, wch, ron, deadline, envVars, histVars,
                 queue, panicked>>

\* Mutants of SendToBuffer: the send does not wait for a Run loop (an unbuffered channel
\* and a select with a default); the goroutine sends again after a send.
SendOrDrop(d) ==
  /\ wpc[d] = "send"
  /\ wch[d] \notin closed
  /\ \A g \in Gen : ~(npc[g] = "parked" /\ non[g] = wch[d])
  /\ wpc' = [wpc EXCEPT ![d] = "idle"]
  /\ UNCHANGED <<fieldVars, dcmdVars, runVars, wch, restVars, envVars, histVars, queue,
                 panicked>>

SendTwice(d) ==
  /\ wpc[d] = "send"
  /\ wch[d] \notin closed
  /\ \A g \in Gen : ~(npc[g] = "parked" /\ non[g] = wch[d])
  /\ Len(queue[wch[d]]) < ChanCap
  /\ queue' = [queue EXCEPT ![wch[d]] = Append(@, d)]
  /\ UNCHANGED <<fieldVars, dcmdVars, runVars, waitVars, restVars, envVars, histVars,
                 panicked>>

SendToBuffer(d) ==
  /\ wpc[d] = "send"
  /\ wch[d] \notin closed
  /\ \A g \in Gen : ~(npc[g] = "parked" /\ non[g] = wch[d])
  /\ Len(queue[wch[d]]) < ChanCap
  /\ queue' = [queue EXCEPT ![wch[d]] = Append(@, d)]
  /\ wpc' = [wpc EXCEPT ![d] = "idle"]
  /\ UNCHANGED <<fieldVars, dcmdVars, runVars, wch, restVars, envVars, histVars,
                 panicked>>

SendOnClosed(d) ==
  /\ wpc[d] = "send"
  /\ wch[d] \in closed
  /\ panicked' = "send on closed channel"
  /\ UNCHANGED <<fieldVars, dcmdVars, runVars, waitVars, restVars, envVars, histVars,
                 queue>>

-----------------------------------------------------------------------------
(* The goroutine that restarts a command: select on d.ctx and a timer, then *)
(* update, Inc and startAndWait.                                            *)

\* d.ctx is read when the goroutine runs, not when it was spawned.
RestartCancelled(d) ==
  /\ rpc[d] = "spawned"
  /\ gen \in cancelled
  /\ rpc' = [rpc EXCEPT ![d] = "idle"]
  /\ ended' = [ended EXCEPT ![d] = "cancelled"]
  /\ UNCHANGED <<fieldVars, dcmdVars, runVars, waitVars, ron, deadline, envVars,
                 restarts, resets, queue, panicked>>

RestartDue(d) ==
  /\ rpc[d] = "spawned"
  /\ NextStart(limiter[d], now) <= now
  /\ rpc' = [rpc EXCEPT ![d] = "due"]
  /\ UNCHANGED <<fieldVars, dcmdVars, runVars, waitVars, ron, deadline, envVars,
                 histVars, queue, panicked>>

RestartPark(d) ==
  /\ rpc[d] = "spawned"
  /\ gen \notin cancelled
  /\ NextStart(limiter[d], now) > now
  /\ rpc' = [rpc EXCEPT ![d] = "parked"]
  /\ ron' = [ron EXCEPT ![d] = gen]
  /\ deadline' = [deadline EXCEPT ![d] = NextStart(limiter[d], now)]
  /\ UNCHANGED <<fieldVars, dcmdVars, runVars, waitVars, envVars, histVars, queue,
                 panicked>>

\* Mutant of TimerFires: the wait for the next start is cut short.
TimerFiresEarly(d) ==
  /\ rpc[d] = "parked"
  /\ rpc' = [rpc EXCEPT ![d] = "due"]
  /\ UNCHANGED <<fieldVars, dcmdVars, runVars, waitVars, ron, deadline, envVars,
                 histVars, queue, panicked>>

TimerFires(d) ==
  /\ rpc[d] = "parked"
  /\ deadline[d] <= now
  /\ rpc' = [rpc EXCEPT ![d] = "due"]
  /\ UNCHANGED <<fieldVars, dcmdVars, runVars, waitVars, ron, deadline, envVars,
                 histVars, queue, panicked>>

\* Mutant of Restart: the return after "restart limit reached" is missing.
RestartAnyway(d) ==
  /\ rpc[d] = "due"
  /\ rpc' = [rpc EXCEPT ![d] = "idle"]
  /\ cmd' = [cmd EXCEPT ![d] = "fresh"]
  /\ limiter' = [limiter EXCEPT ![d] = add(@, 1, now)]
  /\ wpc' = [wpc EXCEPT ![d] = "start"]
  /\ wch' = [wch EXCEPT ![d] = gen]
  /\ IF CanAdd(limiter[d], 1, now)
     THEN /\ restarts' = [restarts EXCEPT ![d] = @ + 1]
          /\ UNCHANGED ended
     ELSE /\ ended' = [ended EXCEPT ![d] = "limit reached"]
          /\ UNCHANGED restarts
  /\ UNCHANGED <<fieldVars, status, runVars, ron, deadline, envVars, resets, queue,
                 panicked>>

\* dcmd.update(), then startAndWait(d.exitedCmdCh) if the limiter grants it
Restart(d) ==
  /\ rpc[d] = "due"
  /\ rpc' = [rpc EXCEPT ![d] = "idle"]
  /\ cmd' = [cmd EXCEPT ![d] = "fresh"]
  /\ limiter' = [limiter EXCEPT ![d] = add(@, 1, now)]
  /\ IF CanAdd(limiter[d], 1, now)
     THEN /\ wpc' = [wpc EXCEPT ![d] = "start"]
          /\ wch' = [wch EXCEPT ![d] = gen]
          /\ restarts' = [restarts EXCEPT ![d] = @ + 1]
          /\ UNCHANGED ended
     ELSE /\ ended' = [ended EXCEPT ![d] = "limit reached"]
          /\ UNCHANGED <<waitVars, restarts>>
  /\ UNCHANGED <<fieldVars, status, runVars, ron, deadline, envVars, resets, queue,
                 panicked>>

-----------------------------------------------------------------------------
(* The operating system and the clock.                                     *)

ChildExit(d) ==
  /\ live[d] > 0
  /\ live' = [live EXCEPT ![d] = @ - 1]
  /\ UNCHANGED <<fieldVars, dcmdVars, runVars, waitVars, restVars, now, histVars,
                 queue, panicked>>

Tick ==
  /\ now < MaxTime \/ \E d \in DCmd : rpc[d] = "parked" /\ deadline[d] > now
  /\ now' = now + 1
  /\ UNCHANGED <<fieldVars, dcmdVars, runVars, waitVars, restVars, live, histVars,
                 queue, panicked>>

-----------------------------------------------------------------------------

Caller == Run \/ Cancel \/ ReloadClose \/ ReloadSwap

Consumer(g) ==
  \/ RunSelect(g) \/ RunReturn(g) \/ RunReceive(g) \/ RunReceiveNil(g) \/ RunPark(g)

startAndWait(d) ==
  \/ LogFails(d) \/ StartFails(d) \/ StartOK(d) \/ SetRunning(d) \/ WaitReturns(d)
  \/ Report(d) \/ SendToParked(d) \/ SendToBuffer(d) \/ SendOnClosed(d)

Restarter(d) ==
  \/ RestartCancelled(d) \/ RestartDue(d) \/ RestartPark(d) \/ TimerFires(d)
  \/ Restart(d)

Next ==
  /\ panicked = "no"
  /\ \/ Caller
     \/ Tick
     \/ \E g \in Gen : Consumer(g) \/ resetLimiter(g)
     \/ \E d \in DCmd : startAndWait(d) \/ Restarter(d) \/ ChildExit(d)

\* Go schedules every goroutine that can run, and time passes.  Nothing makes a
\* command exit, a ticker fire or the operator reload.
Fairness ==
  /\ WF_vars(panicked = "no" /\ Tick)
  /\ \A g \in Gen : WF_vars(panicked = "no" /\ Consumer(g))
  /\ \A d \in DCmd : /\ WF_vars(panicked = "no" /\ startAndWait(d))
                     /\ WF_vars(panicked = "no" /\ Restarter(d))

Spec == Init /\ [][Next]_vars
FairSpec == Spec /\ Fairness

-----------------------------------------------------------------------------
(* Properties.                                                             *)

InQueue(d, g) == \E i \in DOMAIN queue[g] : queue[g][i] = d

Supervised(d) == wpc[d] # "idle" \/ rpc[d] # "idle" \/ InQueue(d, GenOf[d])

QueuedOnce ==
  \A g, h \in Gen : \A i \in DOMAIN queue[g], j \in DOMAIN queue[h] :
    queue[g][i] = queue[h][j] => g = h /\ i = j

\* A command is in one place at a time: in one startAndWait goroutine, or once in
\* one channel, or in one restart goroutine.  Nothing in the code locks this; it
\* holds because every goroutine hands the DaemonCmd on exactly once.
OneSupervisor ==
  /\ QueuedOnce
  /\ \A d \in DCmd :
       /\ wpc[d] = "idle" \/ rpc[d] = "idle"
       /\ \A g \in Gen : InQueue(d, g) => wpc[d] = "idle" /\ rpc[d] = "idle"

\* No command has two running processes, whatever restarts and reloads did.
OneProcess == \A d \in DCmd : live[d] <= 1

\* While a generation runs, each of its commands is in somebody's hands, unless
\* its log file could not be opened or its restart limit is used up: a full
\* channel, a failed start or a late timer loses no exit.
NoExitLost ==
  phase = "running" =>
    \A d \in dcmds : Supervised(d) \/ ended[d] \in {"log file", "limit reached"}

\* A channel holds commands of its own generation only, although a restart
\* goroutine left over from an old generation can run startAndWait on the new one.
OwnChannel ==
  \A g \in Gen : \A i \in DOMAIN queue[g] : GenOf[queue[g][i]] = g

\* Status is read without a lock by the HTTP handlers, the reload and the status
\* printer, which then use dcmd.Cmd.Process.Pid: Running promises a process.
RunningHasProcess == \A d \in DCmd : status[d] = "Running" => cmd[d] = "started"

\* Between resets a command is restarted at most Limit times, so over the whole run
\* at most Limit times per reset and once more: no path restarts past the limiter.
RestartBudget == \A d \in DCmd : restarts[d] <= Limit * (resets + 1)

\* No wake-up is lost although the Run loops and the restart goroutines read d.ctx and
\* d.exitedCmdCh at each select and Reload replaces them: a parked goroutine is parked on
\* the context and the channel of now, with nothing to take from them, and a generation
\* that runs has its Run loop.
WakeupsKept ==
  /\ \A g \in Gen : npc[g] = "parked" =>
       non[g] = gen /\ gen \notin cancelled \cup closed /\ queue[gen] = <<>>
  /\ \A d \in DCmd : rpc[d] = "parked" => ron[d] = gen /\ gen \notin cancelled
  /\ phase = "running" => npc[gen] \in {"loop", "select", "parked"}

\* Whoever meets a closed channel, a Run loop that would receive nil from it or a
\* startAndWait goroutine that would panic on its send, belongs to a generation that is
\* over: old goroutines read the new channel, and the new ones never get the old channel.
OnlyOldMeetClosed ==
  /\ \A g \in Gen : npc[g] \in {"select", "parked"} /\ non[g] \in closed => g \in cancelled
  /\ \A d \in DCmd : wpc[d] = "send" /\ wch[d] \in closed => GenOf[d] \in cancelled

\* A granted restart comes at least 2^count intervals after the one before.  The
\* limiter does not check this (see CanAdd); it follows from the timer, from there
\* being one restart goroutine per command, and from Reset clearing `last`.
BackoffHonoured ==
  [][\A d \in DCmd : restarts'[d] # restarts[d] => NextStart(limiter[d], now) <= now]_vars

\* A command nobody looks after any more is never started again: neither the
\* limiter reset nor a reload brings it back.
EndedIsFinal ==
  [][\A d \in DCmd : ended[d] # "no" =>
       /\ ended'[d] = ended[d]
       /\ restarts'[d] = restarts[d]
       /\ live'[d] <= live[d]]_vars

\* A command that has exited is started again or given up on, as long as its
\* generation is not cancelled and the process does not crash.
ExitIsHandled ==
  \A d \in DCmd :
    wpc[d] = "report" ~>
      wpc[d] = "start" \/ ended[d] # "no" \/ GenOf[d] \in cancelled \/ panicked # "no"

(* What comments and the README say, and the code does not do.             *)

\* daemonCmd.go: "prevent the send from panicking because ch is already closed".
NoSendOnClosed == panicked # "send on closed channel"

\* README: a reload releases all goroutines, then runs new commands.  A command of a
\* cancelled generation would not be restarted.
NoStaleRestart ==
  [][\A d \in DCmd : GenOf[d] \in cancelled => restarts'[d] = restarts[d]]_vars
=============================================================================
