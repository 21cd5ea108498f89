------------------------------- MODULE Update -------------------------------
(***************************************************************************)
(* From the repository of the configuration to the commands that run:      *)
(* PUT /restart?update, PUT /reload?update and PUT /update with GitPull    *)
(* (web/handler/service.go), the SIGHUP that a restart sends to its own    *)
(* process, and the load that answers it (main.go, config/config.go).      *)
(*                                                                         *)
(* Every request is a goroutine of the HTTP server; git locks its index,   *)
(* so that one pull at a time changes the working tree.  A pull takes the  *)
(* old file away and writes the new one, and a load may come between.      *)
(***************************************************************************)
EXTENDS Conf, FiniteSets

CONSTANTS
  Request,   \* the requests, of one call each
  Content,   \* Content[v]: what version v of the file says (0 is the first one)
  Malformed, \* ... when yaml.Unmarshal fails on it
  Askpass,   \* the variables whose text contains SSH_ASKPASS
  Machines   \* where the daemon may run: its environment, os.Hostname and /etc/hosts

Version == DOMAIN Content
Missing == -1                \* the file is not there
WellFormed(v) == v \in Version /\ Content[v] # Malformed
Loads(v) == WellFormed(v) /\ Content[v] # <<>>

ASSUME UpdateAssumption ==
  /\ Version \subseteq Nat /\ 0 \in Version
  /\ \A v \in Version : Content[v] = Malformed \/ Content[v] \in Seq(Cmd)
  /\ Loads(0)
  /\ \A m \in Machines :
       /\ m.environ \in Seq(STRING)
       /\ m.hostname \in Text \cup {None}
       /\ m.hosts \in Seq(Line)

VARIABLES
  environ,   \* os.Environ()
  hostname,  \* os.Hostname()
  hosts,     \* the lines of /etc/hosts
  head,      \* the version of the remote repository
  file,      \* the version in the working tree, or Missing
  hpc,       \* hpc[r]: the handler of request r
  call,      \* call[r]: what was requested
  cmdEnv,    \* cmdEnv[r]: the array under the slice of variables
  len,       \* len[r]: the length of that slice
  at,        \* at[r]: where the range over it is
  mpc,       \* the main goroutine
  conf,      \* the version in the global conf
  version,   \* the version whose commands run
  running,   \* the commands
  logDir,    \* whether they have a directory for their logs
  logs,      \* logs[i]: the log files that the i-th command has opened (history)
  pulled,    \* pulled[r]: the version its pull has brought (history)
  cause      \* the requests whose SIGHUP made main load (history)

envVars == <<environ, hostname, hosts>>
gitVars == <<head, file>>
reqVars == <<hpc, call, cmdEnv, len, at>>
cmdVars == <<running, logDir, logs>>
runVars == <<mpc, conf, version, cmdVars>>
vars == <<envVars, gitVars, reqVars, runVars, pulled, cause>>

\* A reload with an update is an update here; the signals it then sends are in Observers.
Calls == {"restart", "update"}
HandlerPCs == {"idle", "checkout", "filter", "pull", "write", "pulled", "ok", "error", "panic"}
MainPCs == {"select", "load", "busy"}

\* The variables keep their types, and the loop over the variables its bounds.
UpdateTypeOK ==
  /\ head \in Version
  /\ file \in Version \cup {Missing}
  /\ hpc \in [Request -> HandlerPCs]
  /\ call \in [Request -> Calls]
  /\ \A r \in Request : /\ Len(cmdEnv[r]) \in {0, Len(environ)}
                        /\ len[r] \in 0..Len(cmdEnv[r])
                        /\ at[r] \in 1..(Len(cmdEnv[r]) + 1)
  /\ mpc \in MainPCs
  /\ conf \in Version
  /\ version \in Version
  /\ running \in Seq(Cmd)
  /\ logDir \in BOOLEAN
  /\ Len(logs) = Len(running)
  /\ pulled \in [Request -> Version]
  /\ cause \in SUBSET Request

\* The log files that commands open at their first start
Opened(cmds, dir) == [i \in DOMAIN cmds |-> IF dir THEN {LogFile(cmds[i])} ELSE {}]

\* NewDaemon gives the commands of the first generation the directory ./log.
Init ==
  /\ \E m \in Machines : environ = m.environ /\ hostname = m.hostname /\ hosts = m.hosts
  /\ head = 0
  /\ file = 0
  /\ hpc = [r \in Request |-> "idle"]
  /\ call \in [Request -> Calls]
  /\ cmdEnv = [r \in Request |-> <<>>]
  /\ len = [r \in Request |-> 0]
  /\ at = [r \in Request |-> 1]
  /\ mpc = "select"
  /\ conf = 0
  /\ version = 0
  /\ running = GenerateCmds(Content[0], hostname, hosts)
  /\ logDir = TRUE
  /\ logs = Opened(running, TRUE)
  /\ pulled = [r \in Request |-> 0]
  /\ cause = {}

-----------------------------------------------------------------------------
(* GitPull: check out master, drop SSH_ASKPASS from the environment, pull. *)

Step(r, from, to) ==
  /\ hpc[r] = from
  /\ hpc' = [hpc EXCEPT ![r] = to]
  /\ UNCHANGED <<envVars, call>>

Ask(r) ==
  /\ Step(r, "idle", "checkout")
  /\ UNCHANGED <<gitVars, cmdEnv, len, at, runVars, pulled, cause>>

CheckoutFails(r) ==
  /\ Step(r, "checkout", "error")
  /\ UNCHANGED <<gitVars, cmdEnv, len, at, runVars, pulled, cause>>

\* The checkout succeeds; range evaluates cmdEnv once, with its length of now.
Checkout(r) ==
  /\ Step(r, "checkout", "filter")
  /\ cmdEnv' = [cmdEnv EXCEPT ![r] = environ]
  /\ len' = [len EXCEPT ![r] = Len(environ)]
  /\ UNCHANGED <<gitVars, at, runVars, pulled, cause>>

Matches(r) == at[r] <= Len(cmdEnv[r]) /\ cmdEnv[r][at[r]] \in Askpass

\* Mutant of KeepVar: the loop goes one element too far.
KeepVarPast(r) ==
  /\ Step(r, "filter", "filter")
  /\ at[r] <= Len(cmdEnv[r]) + 1
  /\ ~Matches(r)
  /\ at' = [at EXCEPT ![r] = @ + 1]
  /\ UNCHANGED <<gitVars, cmdEnv, len, runVars, pulled, cause>>

KeepVar(r) ==
  /\ Step(r, "filter", "filter")
  /\ at[r] <= Len(cmdEnv[r])
  /\ ~Matches(r)
  /\ at' = [at EXCEPT ![r] = @ + 1]
  /\ UNCHANGED <<gitVars, cmdEnv, len, runVars, pulled, cause>>

\* Mutants of DropVar: the slice is cut off at the match; the old slice is kept in use,
\* with its length.
DropRest(r) ==
  /\ Step(r, "filter", "filter")
  /\ Matches(r)
  /\ at[r] <= len[r]
  /\ len' = [len EXCEPT ![r] = at[r] - 1]
  /\ at' = [at EXCEPT ![r] = @ + 1]
  /\ UNCHANGED <<gitVars, cmdEnv, runVars, pulled, cause>>

DropNoShrink(r) ==
  /\ Step(r, "filter", "filter")
  /\ Matches(r)
  /\ at[r] <= len[r]
  /\ cmdEnv' = [cmdEnv EXCEPT ![r] =
                  [i \in DOMAIN @ |-> IF at[r] <= i /\ i < len[r] THEN @[i + 1] ELSE @[i]]]
  /\ at' = [at EXCEPT ![r] = @ + 1]
  /\ UNCHANGED <<gitVars, len, runVars, pulled, cause>>

\* append(cmdEnv[:i], cmdEnv[i+1:]...) moves the rest down in the array that range goes
\* on walking over, and leaves the last element there twice.
DropVar(r) ==
  /\ Step(r, "filter", "filter")
  /\ Matches(r)
  /\ at[r] <= len[r]
  /\ cmdEnv' = [cmdEnv EXCEPT ![r] =
                  [i \in DOMAIN @ |-> IF at[r] <= i /\ i < len[r] THEN @[i + 1] ELSE @[i]]]
  /\ len' = [len EXCEPT ![r] = @ - 1]
  /\ at' = [at EXCEPT ![r] = @ + 1]
  /\ UNCHANGED <<gitVars, runVars, pulled, cause>>

\* Mutant of SlicePanics: an empty rest of the slice is out of range too.
SlicePanicsAtEnd(r) ==
  /\ Step(r, "filter", "panic")
  /\ Matches(r)
  /\ at[r] >= len[r]
  /\ UNCHANGED <<gitVars, cmdEnv, len, at, runVars, pulled, cause>>

\* A match past the end of the slice: cmdEnv[i+1:] is out of range, and gin recovers.
SlicePanics(r) ==
  /\ Step(r, "filter", "panic")
  /\ Matches(r)
  /\ at[r] > len[r]
  /\ UNCHANGED <<gitVars, cmdEnv, len, at, runVars, pulled, cause>>

Filtered(r) ==
  /\ Step(r, "filter", "pull")
  /\ at[r] > Len(cmdEnv[r])
  /\ UNCHANGED <<gitVars, cmdEnv, len, at, runVars, pulled, cause>>

\* No answer of the remote, a conflict, another git at work, or git is killed
PullFails(r) ==
  /\ \E from \in {"pull", "write"} : Step(r, from, "error")
  /\ UNCHANGED <<gitVars, cmdEnv, len, at, runVars, pulled, cause>>

PullBegins(r) ==
  /\ Step(r, "pull", "write")
  /\ \A q \in Request : hpc[q] # "write"
  /\ file' = IF file = head THEN file ELSE Missing
  /\ UNCHANGED <<head, cmdEnv, len, at, runVars, pulled, cause>>

PullEnds(r) ==
  /\ Step(r, "write", "pulled")
  /\ file' = head
  /\ pulled' = [pulled EXCEPT ![r] = head]
  /\ UNCHANGED <<head, cmdEnv, len, at, runVars, cause>>

\* Mutant of Answer: a restart does not wait for its update.
SignalFirst(r) ==
  /\ Step(r, "checkout", "ok")
  /\ IF call[r] = "restart" /\ mpc = "select"
     THEN mpc' = "load" /\ cause' = {r}
     ELSE UNCHANGED <<mpc, cause>>
  /\ pulled' = [pulled EXCEPT ![r] = head]
  /\ UNCHANGED <<gitVars, cmdEnv, len, at, conf, version, cmdVars>>

\* A restart signals the process, and the signal is dropped unless main waits for it.
Answer(r) ==
  /\ Step(r, "pulled", "ok")
  /\ IF call[r] = "restart" /\ mpc = "select"
     THEN mpc' = "load" /\ cause' = {r}
     ELSE UNCHANGED <<mpc, cause>>
  /\ UNCHANGED <<gitVars, cmdEnv, len, at, conf, version, cmdVars, pulled>>

-----------------------------------------------------------------------------
(* The load of main, on a SIGHUP.                                          *)

Hangup ==
  /\ mpc = "select"
  /\ mpc' = "load"
  /\ cause' = {}
  /\ UNCHANGED <<envVars, gitVars, reqVars, conf, version, cmdVars, pulled>>

\* initConf panics; by then it has stored a configuration without commands in conf.
LoadFails ==
  /\ mpc = "load"
  /\ ~Loads(file)
  /\ mpc' = "select"
  /\ conf' = IF WellFormed(file) THEN file ELSE conf
  /\ UNCHANGED <<envVars, gitVars, reqVars, version, cmdVars, pulled, cause>>

\* The commands of the file take the place of those that run; Daemon.Reload makes them
\* without a directory for logs.
LoadOK ==
  /\ mpc = "load"
  /\ Loads(file)
  /\ mpc' = "busy"
  /\ conf' = file
  /\ version' = file
  /\ running' = GenerateCmds(Content[file], hostname, hosts)
  /\ logDir' = FALSE
  /\ logs' = Opened(running', FALSE)
  /\ UNCHANGED <<envVars, gitVars, reqVars, pulled, cause>>

\* The reload is over, and main selects.
Selects ==
  /\ mpc = "busy"
  /\ mpc' = "select"
  /\ UNCHANGED <<envVars, gitVars, reqVars, conf, version, cmdVars, pulled, cause>>

\* A command is started again after its exit, and opens its log file again.
CmdRestarts(i) ==
  /\ i \in DOMAIN running
  /\ running' = [running EXCEPT ![i] = update(@)]
  /\ logs' = [logs EXCEPT ![i] = @ \cup Opened(running', logDir)[i]]
  /\ UNCHANGED <<envVars, gitVars, reqVars, mpc, conf, version, logDir, pulled, cause>>

\* Somebody pushes a new version.
Push ==
  /\ head + 1 \in Version
  /\ head' = head + 1
  /\ UNCHANGED <<envVars, file, reqVars, runVars, pulled, cause>>

-----------------------------------------------------------------------------

GitPull(r) ==
  \/ CheckoutFails(r) \/ Checkout(r)
  \/ KeepVar(r) \/ DropVar(r) \/ SlicePanics(r) \/ Filtered(r)
  \/ PullFails(r) \/ PullBegins(r) \/ PullEnds(r)

Next ==
  \/ \E r \in Request : Ask(r) \/ GitPull(r) \/ Answer(r)
  \/ Hangup \/ LoadFails \/ LoadOK \/ Selects
  \/ \E i \in DOMAIN running : CmdRestarts(i)
  \/ Push

Spec == Init /\ [][Next]_vars

-----------------------------------------------------------------------------
(* Properties.                                                             *)

\* The environment git gets
GitEnv(r) == SubSeq(cmdEnv[r], 1, len[r])

AskpassAt(env) == {i \in DOMAIN env : env[i] \in Askpass}

\* Deleting from the slice that range walks over loses no other variable, repeats none and
\* changes no order: from[i] is where the i-th variable of the slice was, and what it
\* leaves out contains SSH_ASKPASS.
OthersKept ==
  \A r \in Request : hpc[r] \in {"filter", "pull", "write"} =>
    \E from \in [1..len[r] -> DOMAIN environ] :
      /\ \A i, j \in 1..len[r] : i < j => from[i] < from[j]
      /\ \A i \in 1..len[r] : GitEnv(r)[i] = environ[from[i]]
      /\ \A k \in DOMAIN environ : k \in AskpassAt(environ) \/ \E i \in 1..len[r] : from[i] = k

\* git pull runs without SSH_ASKPASS, unless two variables that contain it are
\* neighbours: the one after a deleted one is not looked at.
AskpassGone ==
  \A r \in Request :
    /\ hpc[r] \in {"pull", "write"}
    /\ \A i \in AskpassAt(environ) : i + 1 \notin AskpassAt(environ)
    => AskpassAt(GitEnv(r)) = {}

\* The handler panics only if the last variable matches and is not the only one: the
\* index of range has then left the slice behind.
PanicNeedsLast ==
  \A r \in Request : hpc[r] = "panic" =>
    Cardinality(AskpassAt(environ)) > 1 /\ Len(environ) \in AskpassAt(environ)

\* The load that a restart with an update has caused takes what its pull has brought or
\* something newer, also when pushes, pulls and other signals come in between.
PulledIsLoaded == mpc = "busy" => \A r \in cause : version >= pulled[r]

\* However often they are restarted and whatever the file has become since, the commands
\* that run are those of the version that was loaded last: the same number in the same
\* order, each with its arguments and its name or the path of that, with what the file
\* says of it and a default where it says nothing: the hostname, the ip of the first line
\* with it, the base name of the command.
RunsLoaded ==
  /\ Len(running) = Len(Content[version])
  /\ \A i \in DOMAIN running :
       LET said == Content[version][i]
           ann  == running[i].ann
       IN /\ running[i].args = said.args
          /\ running[i].cmd \in {said.cmd, Path[said.cmd]}
          /\ \A k \in Keys : said.ann[k] # None => ann[k] = said.ann[k]
          /\ said.ann["hostname"] = None => ann["hostname"] = hostname
          /\ said.ann["name"] = None => ann["name"] = Base[said.cmd]
          /\ said.ann["ip"] = None =>
               \/ ann["ip"] = None /\ (hostname = None \/ \A j \in DOMAIN hosts : ~Lists(hosts[j], hostname))
               \/ \E j \in DOMAIN hosts :
                    /\ ann["ip"] = hosts[j].ip
                    /\ Lists(hosts[j], hostname)
                    /\ \A l \in DOMAIN hosts : Lists(hosts[l], hostname) => j <= l

\* Over all its restarts, a command of the first generation writes to one log file if it
\* is configured by its path, and to at most two if by a bare name, which the first
\* restart replaces; the one of its last start is among them.  After a reload no command
\* writes a log.
LogsKept ==
  \A i \in DOMAIN running :
    LET name == Content[version][i].cmd
    IN IF logDir
       THEN /\ LogFile(running[i]) \in logs[i]
            /\ \A f, g \in logs[i] : Path[name] = name => f = g
            /\ \A f, g, h \in logs[i] : f = g \/ g = h \/ f = h
       ELSE logs[i] = {}

Permuted(a, b) ==
  /\ Len(a) = Len(b)
  /\ \A x \in {a[i] : i \in DOMAIN a} \cup {b[i] : i \in DOMAIN b} :
       Cardinality({i \in DOMAIN a : a[i] = x}) = Cardinality({i \in DOMAIN b : b[i] = x})

OneWord(args) == \A i \in DOMAIN args : Len(args[i]) = 1

\* The order of its arguments does not matter to the hash of a command.  If no argument
\* holds a blank and the names hold as many, nothing else leads to the same hash: two
\* commands with one log file run the same program with the same arguments.
HashTellsApart ==
  \A i, j \in DOMAIN running :
    LET a == running[i]
        b == running[j]
    IN /\ a.cmd = b.cmd /\ Permuted(a.args, b.args) => HashCmd(a) = HashCmd(b)
       /\ /\ HashCmd(a) = HashCmd(b)
          /\ Len(Spelling[a.cmd]) = Len(Spelling[b.cmd])
          /\ OneWord(a.args) /\ OneWord(b.args)
          => a.cmd = b.cmd /\ Permuted(a.args, b.args)
=============================================================================
