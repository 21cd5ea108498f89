-------------------------------- MODULE Main --------------------------------
(***************************************************************************)
(* Package main of cmdDaemon (main.go, from the signal handling on): the   *)
(* goroutine that runs the Daemon, waits for a signal or for the HTTP      *)
(* server to end, reloads on SIGHUP and terminates on SIGTERM.  It is the  *)
(* caller of module Daemon, whose goroutines run beside it.                *)
(*                                                                         *)
(* The channel signal.Notify writes to is unbuffered, and the runtime does *)
(* not wait for a reader: a signal that finds the main goroutine busy is   *)
(* dropped.                                                                *)
(***************************************************************************)
EXTENDS Daemon

CONSTANTS
  MaxSignals   \* bound: number of signals sent to the daemon

ASSUME MainAssumption == MaxSignals \in Nat

VARIABLES
  mpc,        \* the main goroutine
  todo,       \* the commands its kill loop has still to look at
  picked,     \* the command the kill loop has read Running of (a set: one or none)
  killer,     \* killer[d]: the goroutine that is to wait for the exit of d
  termed,     \* the commands whose process was sent a SIGTERM (history)
  termAsked,  \* a SIGTERM was sent to the daemon (history)
  signals     \* number of signals sent to the daemon (history)

mainVars == <<mpc, todo, picked, killer, termed, termAsked, signals>>
allVars  == <<vars, mainVars>>

MainPCs   == {"run", "sleep", "select", "load", "kill", "reload", "swap",
              "terminate", "group", "exiting", "exited"}
KillerPCs == {"idle", "check", "timer"}

\* The place of the main goroutine in the protocol of module Daemon
MainPhase ==
  CASE mpc = "run" -> "built"
    [] mpc \in {"sleep", "select", "load", "terminate"} -> "running"
    [] mpc = "swap" -> "closed"
    [] OTHER -> "cancelled"

\* The variables keep their types, and the main goroutine its protocol: where it calls
\* Run, cancel or Reload, the Daemon is in the phase for that call.
MainTypeOK ==
  /\ phase = MainPhase
  /\ mpc \in MainPCs
  /\ todo \in SUBSET DCmd
  /\ picked \in SUBSET DCmd
  /\ killer \in [DCmd -> KillerPCs]
  /\ termed \in SUBSET DCmd
  /\ termAsked \in BOOLEAN
  /\ signals \in Nat

MainInit ==
  /\ Init
  /\ mpc = "run"
  /\ todo = {}
  /\ picked = {}
  /\ killer = [d \in DCmd |-> "idle"]
  /\ termed = {}
  /\ termAsked = FALSE
  /\ signals = 0

\* go d.Run(), followed by a sleep: 5 seconds at the start, 10 after a reload
MainRun ==
  /\ mpc = "run"
  /\ Run
  /\ mpc' = "sleep"
  /\ UNCHANGED <<todo, picked, killer, termed, termAsked, signals>>

Awake ==
  /\ mpc = "sleep"
  /\ mpc' = "select"
  /\ UNCHANGED <<vars, todo, picked, killer, termed, termAsked, signals>>

-----------------------------------------------------------------------------
(* Signals, from outside or from the handlers of PUT /restart and PUT /stop, *)
(* and the end of the HTTP server.                                         *)

Hangup ==
  /\ signals < MaxSignals
  /\ signals' = signals + 1
  /\ mpc' = IF mpc = "select" THEN "load" ELSE mpc
  /\ UNCHANGED <<vars, todo, picked, killer, termed, termAsked>>

Terminate ==
  /\ signals < MaxSignals
  /\ signals' = signals + 1
  /\ termAsked' = TRUE
  /\ mpc' = IF mpc = "select" THEN "terminate" ELSE mpc
  /\ UNCHANGED <<vars, todo, picked, killer, termed>>

WebServerExited ==
  /\ mpc = "select"
  /\ mpc' = "terminate"
  /\ UNCHANGED <<vars, todo, picked, killer, termed, termAsked, signals>>

-----------------------------------------------------------------------------
(* SIGHUP: load the configuration, stop the old commands, run the new ones. *)

\* initConf panics (unreadable, malformed, empty) and is recovered, or no command
LoadFails ==
  /\ mpc = "load"
  /\ mpc' = "select"
  /\ UNCHANGED <<vars, todo, picked, killer, termed, termAsked, signals>>

\* Mutant of LoadOK: the commands are killed before the context is cancelled.
LoadNoCancel ==
  /\ mpc = "load"
  /\ mpc' = "kill"
  /\ todo' = dcmds
  /\ UNCHANGED <<vars, picked, killer, termed, termAsked, signals>>

\* cancel(), then the loop over d.DCmds begins.
LoadOK ==
  /\ mpc = "load"
  /\ Cancel
  /\ mpc' = "kill"
  /\ todo' = dcmds
  /\ UNCHANGED <<picked, killer, termed, termAsked, signals>>

\* The loop reads Status of the next command: continue, or go on to its Process.
KillSkip(d) ==
  /\ mpc = "kill"
  /\ picked = {}
  /\ d \in todo
  /\ status[d] = "Exited"
  /\ todo' = todo \ {d}
  /\ UNCHANGED <<vars, mpc, picked, killer, termed, termAsked, signals>>

KillPick(d) ==
  /\ mpc = "kill"
  /\ picked = {}
  /\ d \in todo
  /\ status[d] = "Running"
  /\ todo' = todo \ {d}
  /\ picked' = {d}
  /\ UNCHANGED <<vars, mpc, killer, termed, termAsked, signals>>

\* dcmd.Cmd.Process.Pid, SIGTERM to that pid, and a goroutine for the rest.  Process
\* is nil in an exec.Cmd that update made and Start has not yet run.
Kill(d) ==
  /\ d \in picked
  /\ IF cmd[d] = "fresh"
     THEN /\ panicked' = "nil Process"
          /\ UNCHANGED <<picked, termed, killer>>
     ELSE /\ picked' = {}
          /\ termed' = IF live[d] > 0 THEN termed \cup {d} ELSE termed
          /\ killer' = [killer EXCEPT ![d] = "check"]
          /\ UNCHANGED panicked
  /\ UNCHANGED <<fieldVars, dcmdVars, runVars, waitVars, restVars, envVars, histVars,
                 queue, mpc, todo, termAsked, signals>>

\* Mutant of KillerReturns: it waits for the process to end.
KillerReturnsLate(d) ==
  /\ killer[d] = "check"
  /\ cmd[d] = "waited"
  /\ killer' = [killer EXCEPT ![d] = "idle"]
  /\ UNCHANGED <<vars, mpc, todo, picked, termed, termAsked, signals>>

\* The goroutine returns when there is no ProcessState, which is so as long as the
\* process runs, or when it says exited; a signalled process has not "exited".
KillerReturns(d) ==
  /\ killer[d] = "check"
  /\ killer' = [killer EXCEPT ![d] = "idle"]
  /\ UNCHANGED <<vars, mpc, todo, picked, termed, termAsked, signals>>

KillerWaits(d) ==
  /\ killer[d] = "check"
  /\ cmd[d] = "waited"
  /\ killer' = [killer EXCEPT ![d] = "timer"]
  /\ UNCHANGED <<vars, mpc, todo, picked, termed, termAsked, signals>>

\* After 10 seconds: Process.Kill, which fails on a process that was waited for.
KillerTimeout(d) ==
  /\ killer[d] = "timer"
  /\ killer' = [killer EXCEPT ![d] = "idle"]
  /\ UNCHANGED <<vars, mpc, todo, picked, termed, termAsked, signals>>

\* wg.Wait() returns.
AllKilled ==
  /\ mpc = "kill"
  /\ todo = {}
  /\ picked = {}
  /\ \A d \in DCmd : killer[d] = "idle"
  /\ mpc' = "reload"
  /\ UNCHANGED <<vars, todo, picked, killer, termed, termAsked, signals>>

MainReloadClose ==
  /\ mpc = "reload"
  /\ ReloadClose
  /\ mpc' = "swap"
  /\ UNCHANGED <<todo, picked, killer, termed, termAsked, signals>>

MainReloadSwap ==
  /\ mpc = "swap"
  /\ ReloadSwap
  /\ mpc' = "run"
  /\ UNCHANGED <<todo, picked, killer, termed, termAsked, signals>>

-----------------------------------------------------------------------------
(* SIGTERM or the end of the HTTP server: the deferred function.           *)

TerminateCancel ==
  /\ mpc = "terminate"
  /\ Cancel
  /\ mpc' = "group"
  /\ UNCHANGED <<todo, picked, killer, termed, termAsked, signals>>

\* syscall.Kill(-pid, SIGTERM): every process of the group at this moment
KillGroup ==
  /\ mpc = "group"
  /\ mpc' = "exiting"
  /\ termed' = termed \cup {d \in DCmd : live[d] > 0}
  /\ UNCHANGED <<vars, todo, picked, killer, termAsked, signals>>

Exit ==
  /\ mpc = "exiting"
  /\ mpc' = "exited"
  /\ UNCHANGED <<vars, todo, picked, killer, termed, termAsked, signals>>

-----------------------------------------------------------------------------

MainLoop ==
  \/ MainRun \/ Awake \/ WebServerExited
  \/ LoadFails \/ LoadOK \/ AllKilled \/ MainReloadClose \/ MainReloadSwap
  \/ TerminateCancel \/ KillGroup \/ Exit

KillLoop(d) == KillSkip(d) \/ KillPick(d) \/ Kill(d)

Killer(d) == KillerReturns(d) \/ KillerWaits(d) \/ KillerTimeout(d)

\* A step of the daemon package or of a child.  A new process of d has got no signal.
DaemonStep ==
  /\ \/ Tick
     \/ \E g \in Gen : Consumer(g) \/ resetLimiter(g)
     \/ \E d \in DCmd : startAndWait(d) \/ Restarter(d) \/ ChildExit(d)
  /\ termed' = {d \in termed : live'[d] <= live[d]}
  /\ UNCHANGED <<mpc, todo, picked, killer, termAsked, signals>>

MainNext ==
  /\ panicked = "no"
  /\ mpc # "exited"
  /\ \/ MainLoop
     \/ Hangup
     \/ Terminate
     \/ \E d \in DCmd : KillLoop(d) \/ Killer(d)
     \/ DaemonStep

MainSpec == MainInit /\ [][MainNext]_allVars

\* The main goroutine and the killers run; sleeps and timers end.  Nothing makes the
\* HTTP server end, and nothing makes a child react to a signal.
MainFairness ==
  /\ WF_allVars(panicked = "no" /\ mpc # "select" /\ MainLoop)
  /\ \A d \in DCmd : /\ WF_allVars(panicked = "no" /\ KillLoop(d))
                     /\ WF_allVars(panicked = "no" /\ Killer(d))

FairMainSpec == MainSpec /\ MainFairness

-----------------------------------------------------------------------------
(* Properties.                                                             *)

\* The kill loop reads Status, then dcmd.Cmd.Process.Pid, with no lock.  It does not
\* find a nil Process, because the context is cancelled before the loop and the
\* goroutine of a running command does not pass a cancelled command on.
KillHasProcess == panicked # "nil Process"

\* A reload that has begun to kill gets to its end, whatever the children do: the
\* wait group does not wait for a child that ignores SIGTERM.
ReloadCompletes ==
  mpc = "kill" ~> mpc = "sleep" \/ gen = MaxGen \/ panicked # "no"

\* The daemon does not start again what it has sent a SIGTERM, in a reload or at its
\* end: the context is cancelled before the first signal, so the goroutine that sees
\* the child exit passes the command on to nobody.
TermedNotRestarted == [][\A d \in termed : live'[d] <= live[d]]_allVars

(* What comments and the README say, and the code does not do.             *)

\* main.go: "wait for child process exited; if not exited, kill it after 10s".  When
\* the wait group is done, the children that were signalled are gone.
ChildrenGone ==
  mpc = "reload" => \A d \in termed : live[d] = 0

\* README: on SIGTERM the daemon signals every child and exits.
TermHonoured == termAsked ~> mpc = "exited" \/ panicked # "no"
=============================================================================
