# A TLA+ verification project for cmdDaemon

cmdDaemon starts the commands of a configuration file, restarts them when they
exit, under a limiter with exponential backoff, replaces all of them on SIGHUP
and ends on SIGTERM. It is a small program whose difficulty is concurrency:
each command is passed between goroutines over a channel, the caller replaces
the context, the channel and the commands under the goroutines' feet, and most
fields are read and written with no lock.

This directory holds the specifications (`*.tla`), the model-checking
configurations (`*.cfg`), the proofs (`*Proofs.tla`) and `PROJECT.json`, which
maps every definition to the lines it models and lists runs, mutants, findings,
hazards and theorems. Paths below are relative to the repository.

## 1. The system

| part | state | operations | interacts with |
|---|---|---|---|
| `Limiter` (`daemon/limiter.go`) | count, last | `Inc`, `Dec`, `Reset` under a mutex; `next` also without it | `Daemon` |
| `DaemonCmd` (`daemon/daemonCmd.go`) | Cmd, Status, Err, Limiter, ctx, logDir | `startAndWait`, `update`, `CmdHash` | sends itself to the channel of `Daemon` |
| `Daemon` (`daemon/daemon.go`) | ctx, exitedCmdCh, DCmds | `Run`, `run`, restart goroutines, limiter reset ticker, status printer, `Reload`, counters | called by `main`; read by HTTP handlers, metrics, consul |
| `main` (`main.go`) | ctx, cancel, signCh, conf | SIGHUP reload, SIGTERM, end of the HTTP server | cancels and reloads `Daemon`, signals children |
| HTTP handlers (`web/handler`) | none of their own | restart, reload, stop, list, update (git pull) | send signals to the daemon or the children, read `DaemonCmd`s |
| metrics, discovery (`daemon/metrics.go`, `daemon/httpsd.go`) | gauge and counter vectors | collect, list targets | read `DaemonCmd`s |
| configuration (`config/config.go`) | `Conf` | `Unmarshal`, `GenerateCmds` and its visitors | `main` |
| coordinator (`config/coordinator.go`) | subscribers, config, mutex | `Subscribe`, `Reload`, `Notify` | not wired into `main` |
| consul (`register/*`) | ServiceList; the agent's catalog | `Register`, `Deregister`, `Watch`, `RegisterAgain` | reads `DaemonCmd`s; not wired into `main` |
| tools (`internal/tool`) | none | `PidAddr`, `HashCmd`, `IpFromHostname` | all of the above |

What makes it hard:

- *Generations.* A reload is `cancel`, `Daemon.Reload`, `Daemon.Run`. Restart
  goroutines and the loop of `Run` read `d.ctx` and `d.exitedCmdCh` when they
  need them, so one that began in an old generation may finish in the new one.
- *Check, then act.* `startAndWait` looks at the context and then sends, while
  the caller cancels and closes the channel. The kill loop, the printer and the
  HTTP handlers read `Status` and then `Cmd.Process.Pid`, while `update`
  replaces `Cmd`.
- *A bounded channel*, producers that block on it, and a consumer that spawns a
  goroutine per exit.
- *Time.* The backoff is a timer in one place and a guard in another, with a
  ticker that resets the limiter between them.
- *Lossy signals*, and children that react to them late or never.
- *Files that change under a reader*: a pull replaces the configuration while a
  signal makes `main` read it.

`PROJECT.json` lists each hazard at its line with the properties about it.

## 2. The modules

    Limiter         <-- LimiterObject <-- LimiterProofs
       ^
    Daemon          <-- Main      <-- MCMain
       ^            <-- Observers <-- MCObservers
    DaemonInv       <-- DaemonProofs  <-- ObserversProofs (extends Observers as well)
       ^                     ^
    DaemonImplements ...instance... Supervision
       ^                     |
    MCDaemon         SupervisionProofs (extends DaemonImplements and DaemonProofs)
                             ^
                     MainProofs (extends Main as well)

    Conf            <-- Update    <-- MCUpdate, UpdateProofs
    Coordinator     <-- CoordinatorImplements <-- MCCoordinator, CoordinatorProofs
                          ...instance... CoordinatorPromise
    Consul          <-- MCConsul, ConsulProofs

(an arrow points to the module that is extended).

**`Limiter`** gives the limiter as operators on a record `[count, last]`.
`NextStart(l, t)` is `next`, `CanAdd` the two guards of `add`, `add` the method.
`ZeroTime` stands for `time.Time{}`. **`LimiterObject`** is one such object with
`Inc`, `Dec`, `Reset` as actions: what the object promises to callers that do
not wait for `next`. (Nothing in the repository calls `Dec`.)

**`Daemon`** is package `daemon`. A *generation* is what one round of the caller
creates: a context, a channel and the `DaemonCmd`s made with that context.

| variables | code |
|---|---|
| `gen` | which context and channel `d.ctx` and `d.exitedCmdCh` hold |
| `dcmds`, `cancelled`, `closed`, `queue[g]` | `d.DCmds`; contexts that are done; channels that are closed; their buffers |
| `npc[g]`, `non[g]` | the loop of the `Run` call of generation g; the context and channel its `select` has read |
| `wpc[d]`, `wch[d]` | the goroutine in `d.startAndWait(ch)`, and `ch` |
| `rpc[d]`, `ron[d]`, `deadline[d]` | the goroutine `Run` spawns to restart d, its context and timer |
| `status`, `cmd`, `limiter`, `logDir` | the fields of `DaemonCmd`; `cmd` by whether Process and ProcessState are set: fresh, started, waited |
| `live`, `now` | the operating system's processes, and the clock |
| `phase` | where the caller is between `Run`, `cancel` and the two halves of `Reload` |
| `ended`, `restarts`, `resets` | history, for properties only |

| actions | code |
|---|---|
| `Run`, `Cancel`, `ReloadClose`, `ReloadSwap` | `go d.Run()` with `run`; `cancel()`; `Reload` up to the drain, and the rest |
| `RunSelect` | `Run` evaluates the operands of its `select`: the context and the channel of now |
| `RunReturn`, `RunReceive`, `RunReceiveNil`, `RunPark` | the `select` itself: context, channel, closed channel, nothing ready |
| `resetLimiter` | the reset ticker |
| `LogFails`, `StartFails`, `StartOK`, `SetRunning`, `WaitReturns`, `Report`, `SendToParked`, `SendToBuffer`, `SendOnClosed` | `startAndWait`, line by line |
| `RestartCancelled`, `RestartDue`, `RestartPark`, `TimerFires`, `Restart` | the restart goroutine: its `select`, then `update`, `Inc`, `startAndWait` |
| `ChildExit`, `Tick` | the child ends (by itself, or by a signal); time passes |

Decisions a reader may question:

- A goroutine that finds nothing ready *parks* on the context and the channel it
  has read, not on the fields; `cancel` or a send then wakes it and decides its
  case. A goroutine that is not parked evaluates the fields when it gets to its
  `select`, and several ready cases are a free choice. Both are what Go does, and
  both matter: the findings about stale contexts come from the second. For the loop of
  `Run` the evaluation is a step of its own (`RunSelect`): a loop may hold the old
  channel when `Reload` closes and replaces it, and receive nil from it afterwards.
- `go d.Run()` and its `go d.run()` are one action. Both callers sleep for
  seconds after the `go` statement, so the goroutines have read the fields by
  then. `WaitReturns` sets ProcessState and Status in one action; a reader
  between these two assignments sees what it sees before or after both.
- `Reload` has two halves, because everybody can see a closed channel or a new
  context. Within a half the order of the stores makes no difference to a
  goroutine, except that one which looks between the new channel and the new
  context sees a context that is done, as before.
- The mutex of a `DaemonCmd` protects `update` and two log statements. Each is
  inside one action, so the mutex has no variable.
- `Restart` is `update`, `Inc` and the spawn of `startAndWait` in one action.
  Nobody else calls `Inc`; the reset ticker may come before or after.
- The reset ticker resets all limiters in one action. The commands are
  independent in every property. A reset that was begun may end after `cancel` or
  after `Reload`, over the commands the ticker has read.
- `logDir` is set by `NewDaemon` only, so `LogFails` is possible in the first
  generation and not after a reload, as in the code.
- A data race on `d.ctx` or `d.exitedCmdCh` is a read of the old or the new value.
- A panic (`panicked`) ends the process: no step follows.

**`Main`** is the caller: the goroutine of `main` from `signal.Notify` on
(`mpc`), its kill loop (`todo`, `picked`) and the goroutines it waits for
(`killer`). It EXTENDS `Daemon` and its steps are conjunctions with Daemon's
`Run`, `Cancel`, `ReloadClose` and `ReloadSwap`. `Hangup` and `Terminate` are a
signal from outside or from PUT /restart and PUT /stop; both are dropped unless
`mpc = "select"`, because `signCh` is unbuffered and the Go runtime sends to it
without waiting. `LoadFails` stands for every way in which `initConf` or
`GenerateCmds` gives no commands. The order in which the loop visits the
commands is left open, and the error of a `kill` is only logged by the code.
`termed` records which processes got a SIGTERM; a new process has got none.

**`Observers`** has the readers of the commands: the printer that `Run` starts, PUT
/reload, /list, the collector of /metrics and /discovery. It EXTENDS `Daemon`:
`DaemonMoves` is any step of the daemon, its caller or a child, and the steps of a
reader come in between.

| variables | code |
|---|---|
| `job` | which of the five is at work |
| `todo`, `picked` | what the range over DCmds has yet to visit, and the command it is looking at a second time |
| `addr` | `pidAddr`: the address that lsof has printed for the process of a command |
| `listed` | `addrCmd`: the command by address, the last one with it |
| `out` | what was signalled or answered |
| `gauge` | the values this scrape has set in `dcmdStatus`, by label |
| `steady`, `seen` | history: the commands whose Status has not changed since the reader began; the restarts of the picked command, and whether it was cancelled, when it was picked |

| actions | code |
|---|---|
| `PrintBegin`, `RequestBegin` | the ticker of the printer; a request, which reads the slice |
| `Lsof`, `LsofFails` | `PidAddr`, which /list calls when it has read the slice |
| `LookStatus`, `LookProcess` | the `continue` of the printer and of PUT /reload; the one of `addrCmdMap` |
| `UsePid`, `NilProcess` | `Cmd.Process.Pid` of an `exec.Cmd` that is started, or is not |
| `SetGauge`, `AddTarget` | one round of `Collect`; one of `HttpSDHandler` |
| `NilURL`, `Answer` | the end of `List`: `Port` of a nil url after the error of `url.Parse`; the answer of any reader |

- A reader keeps the slice it has found: Go evaluates the range once. `DCmds` is
  replaced by a reload, but the slices themselves are never written to.
- The mutex that the printer takes does not cover its look at Status, and
  `update` may be the one that held it before: it changes nothing here.
- Two commands may listen on one address, as lsof prints it (`*:9090` over tcp4 and
  tcp6, or SO_REUSEPORT): /list then names the one that comes later in its loop
  (`AnswerComplete` says so). `ListensOn` gives the addresses of each command, and
  `Unparsable` those whose port `url.Parse` rejects and `net.SplitHostPort` finds.
- Two readers share only the gauge vector, so there is one reader at a time; two
  scrapes at once are not modelled.
- A panic of the printer ends the process, since its goroutine has no recover; one
  of a handler ends the request.

**`Coordinator`** is `config/coordinator.go`, which `main` does not use yet: `mu`,
`subscribers`, `config`, the `file`, and for each caller its operation, its place and
what it has read (`op`, `pc`, `seen`, `next`, `bytes`). `Call`, `Lock` and `Unlock` are
common to the methods. `ReadSubscribers`, `StoreLength` and `StoreSubscribers` are the
read of `append` and its store, `ReadFile` and `Loaded` the halves of `loadconfig`, and
`Notify`, `Tell`, `TellBeyond` and `AllTold` the loop of `Notify`, which takes no lock. A
slice is three words in memory: a Notify that begins between the store of the length and
that of the pointer (`Torn`) may take more elements than the old array has, and call what
lies behind them (`wild`, `TellBeyond`). `failed` records which subscribers returned an
error. `Loaded` has the three ends of
`loadconfig`: a configuration, a read error, and the panic of `Unmarshal`, which comes
back through the deferred Unlock. `Reload` locks the mutex and calls `loadconfig`,
which locks it again: a Go mutex is not reentrant, so the call waits at "relock" for
ever and the lines after it are never reached.

**`CoordinatorPromise`** is what a caller sees of it, with no mutex, index or copy: a
Subscribe and a load happen at one moment each, a Notify calls a stretch of the list that
is fixed when it begins, a Reload changes nothing and does not return. A Notify that
begins while a Subscribe is under way may run past its stretch (`beyond`), and panic. In the mapping of
`CoordinatorImplements` a Subscribe happens where it stores the list and a load where it
reads the file: `confOf` is the configuration in `c.config` or on its way there, and
`outcomeOf` the result that a load knows before it returns. Which configuration a
subscriber is passed is not promised, as Notify may read `c.config` before a load that
has happened has stored it.

**`Conf`** has the pure parts as operators: `Fill` is what the three visitors have in
common, `GenerateCmds` their composition, `IpFromHostname` the look into /etc/hosts,
`HashCmd` the hash that names a log file (as the string that is hashed, the name and the
sorted arguments joined with blanks: FNV is taken to be injective), and `update` the
`exec.Cmd` of a restart. Texts are members of sets. What is hashed is a sequence of words,
which are numbers in their order, 0 for the empty one: `Spelling` gives the words of a
name, and joining strings with a blank is putting their words one after the other. So a
name with a blank and a shorter name with one more argument make the same string, as they
do in the code. `withIP` looks up
`os.Hostname()` and not the hostname that the file may give, and `update` takes `Path`
for the name, as in the code.

**`Update`** is the way from the repository of the configuration to the commands that
run. It EXTENDS `Conf`.

| variables | code |
|---|---|
| `environ`, `hostname`, `hosts` | the machine |
| `head`, `file` | the version of the remote repository and the one in the working tree, or Missing |
| `hpc[r]`, `call[r]` | where the handler of request r is, and what was requested |
| `cmdEnv[r]`, `len[r]`, `at[r]` | `GitPull`: the array, the length of the slice over it, and the index of the range |
| `mpc`, `conf`, `version`, `running` | the main goroutine, the global `conf`, and the commands with the version they are of |
| `logDir` | `DaemonCmd.logDir`: set by `NewDaemon`, and empty in the commands that `Reload` makes |
| `logs` | history: the log files that each command has opened |
| `pulled`, `cause` | history: what a pull has brought, and which request has made `main` load |

| actions | code |
|---|---|
| `Ask`, `Answer` | the routes /restart, /reload and /update, and the SIGHUP of a restart |
| `CheckoutFails`, `Checkout` | `git checkout master` |
| `KeepVar`, `DropVar`, `SlicePanics`, `Filtered` | the loop that deletes from the slice it ranges over |
| `PullFails`, `PullBegins`, `PullEnds` | `git pull`: it takes the old file away and writes the new one |
| `Hangup`, `LoadFails`, `LoadOK`, `Selects` | a signal, `initConf` with its panics, the new commands, the next `select` |
| `CmdRestarts`, `Push` | `update` at a restart, and the log file of the new start; somebody pushes |

- `range cmdEnv` evaluates the slice once, while `append` moves elements in its
  array: `cmdEnv[r]` is the array, `len[r]` the slice that git gets.
- git locks its index, so one pull at a time writes. A file that is read when half of
  it is written is not modelled; one that is not there is.
- The kill loop and the commands' lives are in `Main`; here a reload is one step.

**`Supervision`** is the abstract specification of package `daemon`: no
goroutines, channels, timers or locks, only the life of each command (`st`: new,
starting, up, exited, waiting, gone), the commands that a reload has cancelled
(`over`) and what has been restarted since the last reset (`credit`). It promises
that a command goes through its life in order; that only the limit, the log file
or a reload ends it; and that the next exit of a cancelled command is its last.
It also says what is *not* promised: a command that was waiting when it was
cancelled may be started once more (`StartAgain` does not look at `over`).
**`DaemonImplements`** is the refinement mapping. `stOf` says that a command in
`startAndWait` is where that goroutine is, and that a reported one is waiting,
whether it is with the goroutine that sends it, in a channel or with the
goroutine that restarts it. `KeepsPromise` is the refinement.

**`Consul`** is package `register`, which `main` does not use yet: the two
goroutines of `Watch` ("minute" and "quarter"), each in its own call of
`RegisterAgain`.

| variables | code |
|---|---|
| `listens[c]` | Status, Process and lsof's line of command c: a service, `None` (running, no port) or "exited" |
| `ServiceList` | `c.ServiceList`, shared by the two goroutines |
| `catalog` | the services in the catalog of the agent |
| `pc[w]`, `todo[w]`, `svcList[w]`, `errs[w]` | where goroutine w is, what its range loop has yet to visit, the list it builds, and whether it met an error |
| `runningCount`, `exitedCount` | the variables of "minute" |
| `unregistered` | history: the services whose last registration failed |

| actions | code |
|---|---|
| `MinuteTick`, `CompareExited`, `CountRunning`, `CountExited` | the loop of "minute": two counts compared, and two counts read, one after the other |
| `QuarterTick` | the loop of "quarter" |
| `Check`, `Visit`, `LsofFails` | the loop of `NewServiceList`: Status; lsof, the pid and its address; lsof or `newService` fails |
| `RefuseList`, `StoreList` | `Updatesvclist` |
| `Deregister`, `Register`, `RequestOK`, `RequestFails` | the two methods: the range over the list of that moment, and one request per service |
| `Return` | `RegisterAgain` returns |
| `CmdStarts`, `CmdListens`, `CmdExits` | the commands, at any time |

- The commands are those of one generation; a reload, which replaces `DCmds`
  under the loops, is not modelled here. A service is a member of a set: what
  `svcName` and `newService` make of a command and a port.
- `Check` and `Visit` are two steps: a command may exit or be restarted between
  the look at Status and the look at its pid, which is then not in lsof's output.
- `Watch` may begin at any time: with any list that `NewConsul` was given, any catalog
  and any state of the commands. (`ConsulInit`; the run takes less, the proofs all.)
- When lsof fails and no error came before (or `newService` finds no port in an
  address), the code returns a nil list *and a nil
  error*, since the result of `errors.Join` is dropped: `LsofFails` stores the
  empty list, as the code does.
- A request that fails may or may not have been applied by the agent.
- A data race on the slice `ServiceList` is a read of the old or the new list. The
  order in which `Register` and `Deregister` visit a list is left open.

The **`MC...`** modules give the constants their values for TLC. **`DaemonInv`** holds the
inductive invariant of `Daemon`, and the **`...Proofs`** modules the theorems.

## 3. What the runs check

All constants named below are bounds of the model and not of the code, except
`ChanCap` (20 in the code), `Limit` (5) and `Interval` (one second). All runs of
the daemon take `ChanCap = 1` and `Interval = 1`. Deadlock is not checked in them:
the last generation may be cancelled for good, a panic ends the process, and a
program that has terminated stops. It is checked in `consul_watch`.

| run | instance | shows |
|---|---|---|
| `daemon_restart` | 2 commands, 1 generation, `Limit = 1`, `MaxTime = 1`, 1 limiter reset, fair | `TypeOK`, `NoExitLost`, `RestartBudget`, `EndedIsFinal`, `ExitIsHandled` |
| `daemon_reload` | 2 generations of 1 command, `Limit = 2`, `MaxTime = 1` | `IInv`, `OneSupervisor`, `OneProcess`, `OwnChannel`, `RunningHasProcess`, `WakeupsKept`, `OnlyOldMeetClosed`, `BackoffHonoured`, `LastLife`, and `KeepsPromise`: `Daemon` implements `Supervision` |
| `main_reload` | 2 generations of 1 command, 1 signal, fair | `MainTypeOK`, `KillHasProcess`, `ReloadCompletes`, `TermedNotRestarted` |
| `observers` | 1 generation of 2 commands, of which one provides metrics, 2 addresses of which one can be shared and one is not parsed, `Limit = 1` | `ObsTypeOK`, `NilOnlyIfRestarted`, `AnswerComplete`, `GaugeHonest` |
| `update_conf` | 2 requests, 4 versions of the file (one malformed, one without commands), 8 machines | `UpdateTypeOK`, `OthersKept`, `AskpassGone`, `PanicNeedsLast`, `PulledIsLoaded`, `RunsLoaded`, `HashTellsApart`, `LogsKept` |
| `coordinator` | 3 calls, 2 contents of the file, fair | `CoordinatorTypeOK`, `ConfigLatest`, `NotifiedInOrder`, `CallsReturn`, and `KeepsCoordinatorPromise`: `Coordinator` implements `CoordinatorPromise` |
| `consul_watch` | 2 commands with a port each, of which at most one runs first, any list and any catalog, 1 start, 1 failure, fair | `ConsulTypeOK`, `ListRegistered`, `RunningRegistered` |
| `limiter_object` | `Limit = 3`, clock up to 12 | `NextNotEarlier` |
| `closed_channel` | 2 generations of 1 command, `Limit = 1` | violation of `NoSendOnClosed` |
| `stale_restart` | as `closed_channel` | violation of `NoStaleRestart` |
| `children_gone` | as `main_reload` | violation of `ChildrenGone` |
| `term_honoured` | as `main_reload`, 2 signals, fair | violation of `TermHonoured` |

Why these bounds are enough for the questions: with a capacity of 1 and two
commands, one reports while the channel is full and `Run` is busy, which needs
21 commands in the code. The commands of one generation share nothing but the
channel, so `daemon_restart` has two and `daemon_reload` one per generation. One
reload is enough for a goroutine of generation 1 to meet generation 2; what a
goroutine carries over (its channel, its timer, its decision) does not grow with
more reloads. A limit of 2 (`daemon_reload`) gives two different backoffs, and a
limiter reset (`daemon_restart`) a backoff that is computed before it and used after
it; the timers run past `MaxTime`, which only stops the clock when nobody waits for
it. `observers` has one generation: a reader keeps the slice of one generation, and
`ReloadSwap` is not needed to take it away, since it is `cancel` and the end of the
commands that the reader can see. In it two commands are the least for which one
changes while the reader is at the other. `update_conf` has environments with one and
two variables that match, next to each other or not, at the end or not: the third one
would repeat what the second does. Two requests are the least for which one pulls what
the other has signalled about; the machines differ in what /etc/hosts and
`os.Hostname` say. The last version of the file has commands with the same words in
another order, in one argument, and in the name. In `coordinator` two calls race and a
third looks on. In `consul_watch` two services are the least for which one goroutine can
deregister what the other registers while the lists of the two differ; one command that
runs first and one start let one command replace another with equal counts, or one command
start twice; one failure is one lsof or one request at any place. The safety properties are proved for all values as well
(section 4).

Fairness. Go's scheduler runs every goroutine that can run, and timers fire:
`Fairness` is weak fairness of the clock, of each `Run` loop, of each
`startAndWait` goroutine and of each restart goroutine, one conjunct each. No
fairness is assumed of children (`ChildExit`), of the reset ticker or of the
caller in `Daemon`. In `Main` the main goroutine and its helpers are weakly fair,
except that nothing forces a signal, the end of the HTTP server or, in the
`select`, any step at all. In `ExitIsHandled` the case of a loop parked on an old
generation is not excluded by an assumption: the leads-to names the cancelled
generation as an outcome. (`daemon_restart` checks it for one generation and its
cancellation.) `ReloadCompletes` has no fairness of the daemon's
goroutines or children: a reload does not depend on them, which is the good side
of the finding `ChildrenGone`. In `Coordinator` every step of a call but `Lock` is weakly
fair (subscribers return, and files can be read or not), and `Lock` strongly: a
`sync.Mutex` hands itself to a waiter that has waited for a millisecond. Nothing
forces a call to begin or the file to change, and `CallsReturn` names a Reload as an
outcome. In `Consul` each goroutine of `Watch` is weakly
fair: the tickers tick for ever and a request ends after the 10 seconds of the
client's timeout at the latest. `RunningRegistered` does not assume that the
commands settle; it is an implication about the behaviours in which they do and
every running command listens. (A command that listens on no port makes
`NewServiceList` return an error, and then no service of any command is registered
again.) It says "again and again" and not "from then on", since every
`RegisterAgain` takes the services out of the catalog first.

### Findings

Each of these is a run that expects a violation, of what a comment or the README says.

1. `NoSendOnClosed` (`daemonCmd.go:118`): the check of the context before the
   send does not prevent the panic; the context can be cancelled and the channel
   closed in between, for certain if the sender is blocked on a full channel.
   (`OnlyOldMeetClosed` says that it takes a command of a cancelled generation, and the
   nil that a closed channel yields a `Run` loop of one.)
2. `NoStaleRestart` (`README.md:12`): a restart goroutine past its timer restarts
   a command of a cancelled generation. Its process is started after the kill
   loop, and nobody stops it. (`LastLife` says what a reload does stop: the command has
   that one life more, and only if it was waiting for its restart.)
3. `ChildrenGone` (`main.go:340`): the goroutine that is to wait for a child
   returns at once, since ProcessState is nil until the child has exited.
4. `TermHonoured` (`README.md:7`): a SIGTERM that arrives during a reload or a
   sleep of the main goroutine is lost.

And these the models show in what they allow, or in the exceptions their properties
name; no run is spent on them:

- a `Run` loop that is busy between `cancel` and the store of the new context adopts
  the new context and stays for another generation (`daemon.go:106`, against the
  comment at 105);
- the interval guard of `Limiter.add` compares `last` with `next` and never refuses
  (`limiter.go:37`); the spacing holds through the timer (`BackoffHonoured`);
- the printer dereferences a nil Process, and takes the daemon down, if it looks at a
  command between its exit and its restart (`daemon.go:92`); PUT /reload and /list fail
  the request instead (`NilOnlyIfRestarted` says when);
- /list gives no answer at all if one address has a port that `url.Parse` rejects: it
  calls `Port` on the nil url (`service.go:97`, `NilURL`), and of two commands with one
  address it names one (`service.go:246`);
- `coordinator.Notify` reads the list with no lock while `Subscribe` stores it, and may
  call beyond its end (`coordinator.go:49`, `TellBeyond`);
- `coordinator.Reload` deadlocks on its own mutex (`coordinator.go:62`, 82), and with it
  every later call that needs the mutex;
- of two neighbouring variables that contain SSH_ASKPASS the second survives
  (`AskpassGone`, against the comment at `service.go:182`), and the handler panics if the
  last variable matches and another one did (`PanicNeedsLast`);
- a command that is configured by a bare name changes its log file at its first
  restart, since `update` puts the path in place of the name, and after a reload no
  command writes a log, since `Reload` gives its commands no directory for it
  (`daemon.go:172`, `LogsKept`);
- commands whose names or arguments hold blanks may share a hash (`HashTellsApart`);
- the values of labels that are gone stay in the gauge vector (`GaugeHonest` speaks of
  the commands of the slice only);
- after a failed load `conf` may hold a configuration without commands while the old
  commands run (`LoadFails` of `Update`).

## 4. What is proved

`tlapm` checks eight modules: `DaemonProofs`, `SupervisionProofs`, `MainProofs` and
`ObserversProofs` for every set of commands, number of generations, channel capacity,
limit and interval; `LimiterProofs` for every limit and interval; `ConsulProofs` for
every finite set of commands and set of services; `CoordinatorProofs` for every set of
calls, subscribers and contents; `UpdateProofs` for every set of requests,
configurations, environments and machines. The theorems are:

- `TypeCorrect`, `Inductive`, `SupervisionCorrect`, `ChannelCorrect`, `ProcessCorrect`,
  `StatusCorrect`, `CustodyCorrect`, `BudgetCorrect`, `WakeupsCorrect`, `ClosedCorrect`:
  the invariants of the table above, from `Spec`;
- `BackoffCorrect`, `EndedCorrect`, `LastLifeCorrect`: the three action properties;
- `MainImplementsDaemon`: `MainSpec => Spec`, so all of these hold of the program;
- `KillSafe`, `ProtocolKept`, `TermedCorrect`: the safety properties of `Main`;
- `PromiseKept`: `Spec => KeepsPromise`, package `daemon` implements `Supervision`, and
  `MainKeepsPromise`: so does the program;
- `ObsTypes`, `NilCorrect`, `AnswersCorrect`, `GaugeCorrect`: the invariants of `Observers`;
- `CoordinatorTypes`, `NoSubscriptionLost`, `LatestLoaded`, `NotifyCorrect`: those of
  `Coordinator`, and `CoordinatorLinearizable`: `Spec => KeepsCoordinatorPromise` (no run
  checks `SubscriptionsKept` on its own, since the promise says more; the proof needs it);
- `UpdateTypes`, `EnvironKept`, `AskpassFiltered`, `PanicExplained`, `PullsLoaded`,
  `LoadedRuns`, `HashOfArguments`, `LogFilesKept`: all properties of `Update`;
- `ConsulTypes`, `ListCorrect`: the invariants of `Consul`;
- `NextCorrect`: the action property of `LimiterObject`.

Assumptions: the named ASSUMEs on the constants. Two of them, `PowerAssumption` and
`DoubleAssumption`, state that 2^n is a positive natural and twice the power before,
which the provers do not know of exponentiation; TLC evaluates them for the limits of
the runs.

None of the invariants is inductive alone. Take `OneProcess`. It needs that a
command is in one `startAndWait` goroutine, which needs that a restart begins
only when the one before has ended, which needs that a command is once in one
channel (`OneSupervisor`), including the moment when a goroutine left over from an
old generation runs `startAndWait` on the new channel. There it needs that this
goroutine never sends: it does not, because its own context is done
(`WaiterInv`: a goroutine that sends does so on the channel of its own
generation). `IInv` of `DaemonInv` has one named conjunct per idea:

- `GenerationsInv`: the cancelled and closed generations are those before the
  current one, and the current one between `cancel` and the new `Run`;
- `UnbornInv`: nobody has seen a command that has not been run;
- `LoopInv`: a `Run` loop holds the fields of its own generation or a later one;
- `OneSupervisor`, `OwnChannel`: custody of a command;
- `WaiterInv`: what the place in `startAndWait` says about process and Status;
- `LimiterInv`: the limiter accounts for the restarts, and a goroutine past its
  timer is past `next` (or the limiter was reset, which clears `last`);
- `HandsInv`: given up means in nobody's hands, and, while a generation runs, not
  in anybody's hands means given up.

`DaemonProofs` has a lemma per action or group of actions; frame lemmas say what
each conjunct depends on, and the actions that pass a command on share
`PassFrame` and `GiveUpFrame`. `TypeStep` is separate, so that the rest may use
the types. In `MainProofs`, `KillInv` says that a command the kill loop has picked
keeps its `exec.Cmd`: its context is cancelled, so its goroutine reports to
nobody and nobody calls `update`. `MainImplementsDaemon` and `KillSafe` are proved
together, since a nil Process would be a step that `Daemon` does not have.

`PromiseKept` needs `IInv` too, to know where a command is not: `OneMoves` says that
a step which disturbs the pieces of one command only maps to a move of that
command, and each action of `Daemon` gets a lemma saying which move it is, or that
the mapping does not see it (a send, a receive, a timer). The two places with some
thought in them are a restart that the limiter refuses (`RefusedAtLimit`: the
interval guard being always true, the credit is used up) and `cancel`, after which
the waiting commands give up one after the other and not all at once.

`ListRegistered` speaks of the moments when neither goroutine of `Watch` is at work
on the catalog. It holds at the start because `unregistered` takes in what the first list
names and the catalog lacks. `ListInv` covers the other moments: a service of the list is in the
catalog, or its registration has failed, or a goroutine has yet to register it.
The last is what lets one goroutine deregister what the other has registered, and
it is preserved by a store of a new list because the goroutine that stores it
goes on to register it.

`TermInv` of `MainProofs` says why a signalled command is not started again: its
generation is cancelled, and the goroutine that waits for its process will see that.

`WakeupsKept` and `OnlyOldMeetClosed` are inductive together with `IInv`
(`WakeupsFrame`, `WakeupsStep`): a goroutine parks only when its select has nothing ready,
`cancel` and a send wake it in the same step, and the fields it has read are replaced only
after the `cancel` that wakes it. `LastLife` is an action property: `OverWaitsNoMore` says
that no step makes a cancelled command wait (its goroutine does not report), and
`RestartsWaiting` that a step which restarts a command takes it out of waiting.

`ObsInv` of `ObserversProofs` extends `IInv`. `SeenInv` says what has become of a picked
command: a new `exec.Cmd` comes only with a restart or its refusal (`FreshByRestart`), and
a command that was running and cancelled when it was picked reports to nobody any more
(`PassingStays`). Every command of the slice that has been Running is still to be visited,
picked or answered, which for /list needs that addresses are those a command can listen on
(`AddrInv`), and that the reader has one command in hand (`SliceInv`).

`CoordinatorInv` says what a call holds between its read and its store: the subscribers
of now, or the content that was read last. The mutex keeps it true, through
`CoordinatorTypeOK`, whose last conjunct is mutual exclusion. `TellInv` is for `Notify`,
which has no mutex: the list only grows, so what it ranges over stays a beginning of it, and
the one subscriber that has failed is the last one called.
`CoordinatorLinearizable` rests on `ConfIsLatest`: with at most one load between its read
and its store, `confOf` is the content that was read last. Then each lemma says which
step of the promise an action is (`PromiseBegin`, `PromiseHappens`, `PromiseTells`) or
that it is none (`PromiseStutters`).

`UpdateInv` has four parts besides the types. `LoopInv` bounds the loop over the
environment. `PullInv` says that the file, when it is there, is at least as new as every
pull that has ended, which survives other pulls because each ends with the newest
version. `RunInv` says that what runs is, command by command, what `GenerateCmds` has
made of a version that loads, or its `update`; the lemmas `Filled` and `Generated` say
what that is, `FirstLine` that the ip is the one of the first line, and `Updated` that
a second restart changes nothing more. `LogInv` says that a command has
opened the file of its first start and perhaps that of its restarts, or none.

`FilterInv` is about the loop of `GitPull` that deletes from the slice it ranges over. It
relates the array under the slice to the environment position by position: where the
slice begins to differ, which variables were dropped, and that each dropped one matched.
`LoopBegins`, `LoopKeeps` and `LoopDrops` are the three moves of the loop; `EnvironKept`,
`AskpassFiltered` and `PanicExplained` read their statements off it at the end.

`HashOfArguments` needs no more of the state than `UpdateInv`; the work is in the lemmas
about the operators of `Conf`: sorting yields one arrangement of the arguments whatever
their order (`OrderExists`, `PermutedSame`), and the joined words of arguments of one word
each give back the arguments (`JoinedWords`, `FlattenInjective`), once the words of the
names, of which there are equally many, are taken off (`PrefixesEqual`). What would be an
induction over the length of a sequence is an argument about the least length for which
the claim fails (`Least`), which the provers can follow.

Only model-checked: the liveness properties `ExitIsHandled`, `ReloadCompletes`,
`RunningRegistered` and `CallsReturn`, which are beyond the prover. Every invariant, action
property and refinement that a passing run checks is a theorem as well. Each property also
has a mutant, a plausible bug in an action that TLC finds through that property
(PROJECT.json, "mutants"; the mutant operators stand before the definitions they replace).

## 5. What is not modelled

- `main`: flags, fork, log setup, `-killCmds` and the default configuration file, which
  run before the daemon or instead of it; the gin routing.
- `web/handler/endpoint.go`, `transport.go`: they wrap the calls of `service.go` and keep
  no state. `web/metrics`: counters around gin. `docs`: generated.
- Two scrapes at once, which set one gauge vector in any order.
- A configuration file that is read when half of it is written: the outcome is that
  of a malformed one or of one more version.
- Splitting lines of `lsof` and `/etc/hosts` into fields, YAML, and the formats of
  /list and of the requests to consul; `PrintConf` and `node.go` of package `register`.
- Process identifiers and their reuse; what children do with signals.
- `GetDCmdByCmd`, which nothing calls, and the counter of restarts, which is the history
  variable `restarts` of `Daemon`.

## 6. Plan

What could be added, in order of importance:

1. `Consul` over a reload: the loops of `Watch` keep the slice of a generation that is
   gone. The two would be composed once `main` wires package `register`.
2. `Observers` with two scrapes at once, if the collector gets state of its own.
3. `Coordinator.Reload` with its metrics, when its lock is repaired.
