------------------------------ MODULE Observers ------------------------------
(***************************************************************************)
(* The readers of DCmds, Status and Cmd beside the goroutines of Daemon:   *)
(* the printer of running commands that Run starts, PUT /reload, /list,    *)
(* the collector of /metrics and /discovery.  None of them takes a lock    *)
(* that the writers of Status take, and most look at a command twice: the  *)
(* printer and PUT /reload at Status and then at Cmd.Process, /list twice  *)
(* at Cmd.Process.                                                         *)
(*                                                                         *)
(* A reader works off the slice DCmds it has found at its start.  Readers  *)
(* change nothing that another reader looks at, but for two scrapes at     *)
(* once, so one reader at a time is enough.                                *)
(***************************************************************************)
EXTENDS Daemon

CONSTANTS
  Label,      \* Label[d]: the label values of d, from its annotations
  Scraped,    \* the commands that have a metricsPath, an ip and a port
  Addr,       \* the addresses lsof tells of a listening process
  ListensOn,  \* ListensOn[d]: those lsof can tell of a process of d, None if it may tell none
  Unparsable, \* those whose port net.SplitHostPort finds and url.Parse does not accept
  None        \* no address, no command

ASSUME ObserversAssumption ==
  /\ Scraped \subseteq DCmd
  /\ ListensOn \in [DCmd -> SUBSET (Addr \cup {None})]
  /\ Unparsable \subseteq Addr
  /\ None \notin Addr \cup DCmd

VARIABLES
  job,        \* what the reader at work does
  todo,       \* the commands its loop has still to look at
  picked,     \* the command it looks at a second time (a set: one or none)
  addr,       \* /list: the address in lsof's output under the pid of a command, or None
  listed,     \* /list: addrCmd, the command by address
  out,        \* the commands it has signalled or answered
  gauge,      \* dcmdStatus, by label: what this scrape has set ("old": not yet)
  steady,     \* the commands of the slice whose Status has not changed since (history)
  seen        \* what held of the picked command when it was picked (history)

listVars == <<addr, listed>>
jobVars == <<job, todo, picked, listVars, out, gauge, steady, seen>>
obsVars == <<vars, jobVars>>

\* /list is "lsof" while lsof runs and "list" from then on.
Jobs   == {"none", "print", "reload", "lsof", "list", "scrape", "discover"}
NotSeen == [restarts |-> 0, over |-> FALSE]
Labels == {Label[d] : d \in DCmd}

ObsTypeOK ==
  /\ job \in Jobs
  /\ todo \in SUBSET DCmd
  /\ picked \in SUBSET DCmd
  /\ addr \in [DCmd -> Addr \cup {None}]
  /\ listed \in [Addr -> DCmd \cup {None}]
  /\ out \in SUBSET DCmd
  /\ gauge \in [Labels -> {"old", "Exited", "Running"}]
  /\ steady \in SUBSET DCmd
  /\ seen \in [restarts : Nat, over : BOOLEAN]
  /\ job = "none" => todo \cup picked \cup out \cup steady = {}

Idle ==
  /\ job = "none"
  /\ todo = {}
  /\ picked = {}
  /\ addr = [d \in DCmd |-> None]
  /\ listed = [a \in Addr |-> None]
  /\ out = {}
  /\ gauge = [l \in Labels |-> "old"]
  /\ steady = {}
  /\ seen = NotSeen

ObsInit == Init /\ Idle

-----------------------------------------------------------------------------
(* A step of the daemon package, its caller or a child, as the readers see it: *)
(* a pid of lsof's output is looked up in vain once update has replaced the   *)
(* exec.Cmd.                                                                  *)

DaemonMoves ==
  /\ Next
  /\ steady' = {d \in steady : status'[d] = status[d]}
  /\ addr' = [d \in DCmd |-> IF cmd'[d] = "fresh" THEN None ELSE addr[d]]
  /\ UNCHANGED <<job, todo, picked, listed, out, gauge, seen>>

-----------------------------------------------------------------------------
(* A reader begins: it reads the slice DCmds.                              *)

Begin(what) ==
  /\ job = "none"
  /\ job' = what
  /\ todo' = dcmds
  /\ steady' = dcmds
  /\ UNCHANGED <<vars, picked, listVars, out, gauge, seen>>

\* case <-printCmdTicker.C: the printer may have taken the tick just before cancel.
PrintBegin ==
  /\ phase \in {"running", "cancelled"}
  /\ Begin("print")

\* PUT /reload with no command is an error; /metrics and /discovery loop over nothing.
\* /list reads the slice and then, if there are commands, runs lsof.
RequestBegin(what) ==
  /\ what \in {"reload", "lsof", "scrape", "discover"}
  /\ dcmds # {}
  /\ Begin(what)

\* The end of a reader, with an answer or without
Leave ==
  /\ job' = "none"
  /\ todo' = {}
  /\ picked' = {}
  /\ addr' = [d \in DCmd |-> None]
  /\ listed' = [a \in Addr |-> None]
  /\ gauge' = [l \in Labels |-> "old"]
  /\ steady' = {}
  /\ seen' = NotSeen

\* PidAddr: lsof tells the processes that listen, one address by pid, or it fails.
Lsof ==
  /\ job = "lsof"
  /\ addr' \in {at \in [DCmd -> Addr \cup {None}] :
                  \A d \in DCmd : IF d \in todo /\ live[d] > 0 THEN at[d] \in ListensOn[d]
                                  ELSE at[d] = None}
  /\ job' = "list"
  /\ UNCHANGED <<vars, todo, picked, listed, out, gauge, steady, seen>>

LsofFails ==
  /\ job = "lsof"
  /\ Leave
  /\ UNCHANGED <<vars, out>>

-----------------------------------------------------------------------------
(* The loop over the slice.                                                *)

Visit(d, jobs) ==
  /\ job \in jobs
  /\ picked = {}
  /\ d \in todo
  /\ todo' = todo \ {d}
  /\ UNCHANGED <<vars, job, listVars, steady>>

\* The reader goes on with d if a condition holds, else with the next command.
Pick(d, condition) ==
  IF condition
  THEN /\ picked' = {d}
       /\ seen' = [restarts |-> restarts[d], over |-> GenOf[d] \in cancelled]
  ELSE UNCHANGED <<picked, seen>>

\* Mutant of LookStatus: the condition of the continue is the wrong way round.
LookStatusSwapped(d) ==
  /\ Visit(d, {"print", "reload"})
  /\ Pick(d, status[d] # "Running")
  /\ UNCHANGED <<out, gauge>>

\* The printer and PUT /reload: if dcmd.Status == Exited, continue.
LookStatus(d) ==
  /\ Visit(d, {"print", "reload"})
  /\ Pick(d, status[d] # "Exited")
  /\ UNCHANGED <<out, gauge>>

\* addrCmdMap: if dcmd.Cmd.Process == nil, continue.
LookProcess(d) ==
  /\ Visit(d, {"list"})
  /\ Pick(d, cmd[d] # "fresh")
  /\ UNCHANGED <<out, gauge>>

\* Mutant of SetGauge: an exited command is skipped, as the printer skips it.
SetGaugeOnce(d) ==
  /\ Visit(d, {"scrape"})
  /\ gauge' = IF status[d] = "Exited" THEN gauge
              ELSE [gauge EXCEPT ![Label[d]] = status[d]]
  /\ UNCHANGED <<picked, seen, out>>

\* Collect: the gauge of the labels is set to Status.
SetGauge(d) ==
  /\ Visit(d, {"scrape"})
  /\ gauge' = [gauge EXCEPT ![Label[d]] = status[d]]
  /\ UNCHANGED <<picked, seen, out>>

\* HttpSDHandler: a target for a running command that provides metrics
AddTarget(d) ==
  /\ Visit(d, {"discover"})
  /\ out' = IF d \in Scraped /\ status[d] = "Running" THEN out \cup {d} ELSE out
  /\ UNCHANGED <<picked, seen, gauge>>

\* dcmd.Cmd.Process.Pid of an exec.Cmd that is not started: the panic ends the daemon
\* in the printer; in a handler gin recovers it, and the request gets no answer.
NilProcess(d) ==
  /\ d \in picked
  /\ cmd[d] = "fresh"
  /\ IF job = "print"
     THEN /\ panicked' = "nil Process"
          /\ UNCHANGED <<jobVars>>
     ELSE /\ Leave
          /\ out' = {}
          /\ UNCHANGED panicked
  /\ UNCHANGED <<fieldVars, dcmdVars, runVars, waitVars, restVars, envVars, histVars,
                 queue>>

\* The pid is logged, sent a SIGHUP (an error if the process has been waited for), or
\* looked up in lsof's output: addrCmd keeps the last command with an address.
UsePid(d) ==
  /\ d \in picked
  /\ cmd[d] # "fresh"
  /\ picked' = {}
  /\ seen' = NotSeen
  /\ out' = IF job = "reload" /\ cmd[d] = "started" THEN out \cup {d} ELSE out
  /\ listed' = IF job = "list" /\ addr[d] # None THEN [listed EXCEPT ![addr[d]] = d] ELSE listed
  /\ UNCHANGED <<vars, job, todo, addr, gauge, steady>>

LoopDone == job \notin {"none", "lsof"} /\ todo = {} /\ picked = {}

\* List formats addrCmd: when url.Parse rejects an address and net.SplitHostPort does not,
\* url.Port is called on a nil url, and the request gets no answer.
NilURL ==
  /\ LoopDone
  /\ job = "list"
  /\ \E a \in Unparsable : listed[a] # None
  /\ Leave
  /\ UNCHANGED <<vars, out>>

\* Mutant of Answer: what a request has met is left to the next one.
AnswerKeeps ==
  /\ LoopDone
  /\ job = "list" => \A a \in Unparsable : listed[a] = None
  /\ Leave
  /\ UNCHANGED <<vars, out>>

\* The answer is sent, of /list with the commands in addrCmd; the printer is through.
Answer ==
  /\ LoopDone
  /\ job = "list" => \A a \in Unparsable : listed[a] = None
  /\ Leave
  /\ out' = {}
  /\ UNCHANGED vars

-----------------------------------------------------------------------------

Reader ==
  \/ PrintBegin
  \/ \E what \in Jobs : RequestBegin(what)
  \/ Lsof \/ LsofFails
  \/ \E d \in DCmd :
       \/ LookStatus(d) \/ LookProcess(d) \/ SetGauge(d) \/ AddTarget(d)
       \/ NilProcess(d) \/ UsePid(d)
  \/ NilURL \/ Answer

ObsNext ==
  \/ DaemonMoves
  \/ panicked = "no" /\ Reader

ObsSpec == ObsInit /\ [][ObsNext]_obsVars

-----------------------------------------------------------------------------
(* Properties.                                                             *)

\* The commands of the slice that have been Running all the time
Ran == {d \in steady : status[d] = "Running"}

\* A reader meets a nil Process only at a command that has exited and gone all the way to
\* update between its two looks.  For the printer and PUT /reload, which look at Status
\* first, this takes a generation that was not cancelled at the first look: once cancel is
\* called, the goroutine of a running command passes it on to nobody.
NilOnlyIfRestarted ==
  \A d \in picked : cmd[d] = "fresh" =>
    /\ seen.restarts < restarts[d] \/ ended[d] = "limit reached"
    /\ job \in {"print", "reload"} => ~seen.over

\* A request leaves out no command that runs while it is answered, although the slice
\* may be replaced and other commands exit and restart: PUT /reload signals it,
\* /discovery answers it if it provides metrics, and /list lists it if lsof has found it,
\* or in its place a command that can listen on the same address.
AnswerComplete ==
  \A d \in Ran \ (todo \cup picked) :
    /\ job = "reload" => d \in out
    /\ job = "discover" /\ d \in Scraped => d \in out
    /\ job = "list" /\ addr[d] # None =>
         \E e \in DCmd : listed[addr[d]] = e /\ addr[d] \in ListensOn[e]

\* A scrape answers the Status of every command that keeps it meanwhile, if the command
\* is the only one of its generation with its labels.
GaugeHonest ==
  job = "scrape" =>
    \A d \in steady \ todo :
      (\A e \in NewDCmds(GenOf[d]) : Label[e] = Label[d] => e = d)
        => gauge[Label[d]] = status[d]
=============================================================================
