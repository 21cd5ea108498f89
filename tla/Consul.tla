------------------------------- MODULE Consul -------------------------------
(***************************************************************************)
(* Package register of cmdDaemon: keeping the services of the running      *)
(* commands registered in the catalog of a Consul agent                    *)
(* (register/consul.go).                                                   *)
(*                                                                         *)
(* Watch starts two goroutines.  "minute" compares the numbers of running  *)
(* and exited commands with those it has seen and calls RegisterAgain when *)
(* they differ; "quarter" calls it every 15 minutes.  RegisterAgain builds *)
(* a new ServiceList, deregisters its services and registers them again.   *)
(* The two share ServiceList without a lock, commands start and exit at    *)
(* any time, and lsof and every request can fail.                          *)
(***************************************************************************)
EXTENDS Integers, FiniteSets

CONSTANTS
  Cmd,         \* daemon.DCmds
  Service,     \* service names: name:port
  Offers,      \* Offers[c]: the services that a process of c can be
  None,        \* not a service: the command listens on no port
  MaxStarts,   \* bound: number of times a command starts
  MaxFailures  \* bound: number of times lsof or a request fails

ASSUME ConsulAssumption ==
  /\ IsFiniteSet(Cmd)
  /\ Offers \in [Cmd -> SUBSET Service]
  /\ None \notin Service
  /\ MaxStarts \in Nat
  /\ MaxFailures \in Nat

Watcher == {"minute", "quarter"}

VARIABLES
  listens,       \* listens[c]: the service of c's process, None, or "exited" (Status)
  starts,        \* how often a command has started
  failures,      \* how often lsof or a request has failed
  ServiceList,   \* c.ServiceList
  catalog,       \* the services in the catalog of the agent
  pc,            \* pc[w]: where goroutine w is
  todo,          \* todo[w]: what its current range loop has not visited
  svcList,       \* svcList[w]: the list it is building
  errs,          \* errs[w]: it has met an error
  runningCount,  \* variables of "minute"
  exitedCount,
  unregistered   \* the services whose last registration failed, or that were in the first
                 \* list and are not registered yet (history)

envVars   == <<listens, starts>>
countVars == <<runningCount, exitedCount>>
vars == <<envVars, failures, ServiceList, catalog, pc, todo, svcList, errs, countVars,
          unregistered>>

WatchPCs == {"tick", "compare", "list", "lookup", "deregister", "deregistering", "registering", "count"}

ConsulTypeOK ==
  /\ listens \in [Cmd -> Service \cup {None, "exited"}]
  /\ starts \in 0..MaxStarts
  /\ failures \in 0..MaxFailures
  /\ ServiceList \in SUBSET Service
  /\ catalog \in SUBSET Service
  /\ pc \in [Watcher -> WatchPCs]
  /\ todo \in [Watcher -> (SUBSET Cmd) \cup (SUBSET Service)]
  /\ svcList \in [Watcher -> SUBSET Service]
  /\ errs \in [Watcher -> BOOLEAN]
  /\ runningCount \in 0..Cardinality(Cmd)
  /\ exitedCount \in 0..Cardinality(Cmd)
  /\ unregistered \in SUBSET Service

running == {c \in Cmd : listens[c] # "exited"}
exited  == Cmd \ running

\* Watch begins at any time, with any list that NewConsul was given and any catalog; it has
\* just read the number of exited commands, and that of the running ones before.
ConsulInit ==
  /\ listens \in [Cmd -> Service \cup {None, "exited"}]
  /\ \A c \in Cmd : listens[c] \in Offers[c] \cup {None, "exited"}
  /\ \A c, d \in Cmd : listens[c] \in Service /\ listens[c] = listens[d] => c = d
  /\ starts = 0
  /\ failures = 0
  /\ ServiceList \in SUBSET Service
  /\ catalog \in SUBSET Service
  /\ pc = [w \in Watcher |-> "tick"]
  /\ todo = [w \in Watcher |-> {}]
  /\ svcList = [w \in Watcher |-> {}]
  /\ errs = [w \in Watcher |-> FALSE]
  /\ runningCount \in 0..Cardinality(Cmd)
  /\ exitedCount = Cardinality(exited)
  /\ unregistered = ServiceList \ catalog

-----------------------------------------------------------------------------
(* The commands: they start, listen on a port some time later, and exit.   *)

CmdStarts(c) ==
  /\ listens[c] = "exited"
  /\ starts < MaxStarts
  /\ starts' = starts + 1
  /\ listens' = [listens EXCEPT ![c] = None]
  /\ UNCHANGED <<failures, ServiceList, catalog, pc, todo, svcList, errs, countVars,
                 unregistered>>

CmdListens(c) ==
  /\ listens[c] = None
  /\ \E s \in Offers[c] :
       /\ \A d \in Cmd : listens[d] # s
       /\ listens' = [listens EXCEPT ![c] = s]
  /\ UNCHANGED <<starts, failures, ServiceList, catalog, pc, todo, svcList, errs,
                 countVars, unregistered>>

CmdExits(c) ==
  /\ c \in running
  /\ listens' = [listens EXCEPT ![c] = "exited"]
  /\ UNCHANGED <<starts, failures, ServiceList, catalog, pc, todo, svcList, errs,
                 countVars, unregistered>>

-----------------------------------------------------------------------------
(* Watch.                                                                  *)

Go(w, place) == pc' = [pc EXCEPT ![w] = place]

\* RegisterAgain returns, and its variables with it.
Leave(w, place) ==
  /\ Go(w, place)
  /\ svcList' = [svcList EXCEPT ![w] = {}]
  /\ errs' = [errs EXCEPT ![w] = FALSE]

\* RegisterAgain begins with NewServiceList: an empty list, and all commands to visit.
RegisterAgain(w) ==
  /\ Go(w, "list")
  /\ todo' = [todo EXCEPT ![w] = Cmd]
  /\ svcList' = [svcList EXCEPT ![w] = {}]
  /\ errs' = [errs EXCEPT ![w] = FALSE]

QuarterTick ==
  /\ pc["quarter"] = "tick"
  /\ RegisterAgain("quarter")
  /\ UNCHANGED <<envVars, failures, ServiceList, catalog, countVars, unregistered>>

\* The two counts are compared one after the other, the second only if needed.
MinuteTick ==
  /\ pc["minute"] = "tick"
  /\ IF runningCount # Cardinality(running)
     THEN RegisterAgain("minute")
     ELSE Go("minute", "compare") /\ UNCHANGED <<todo, svcList, errs>>
  /\ UNCHANGED <<envVars, failures, ServiceList, catalog, countVars, unregistered>>

CompareExited ==
  /\ pc["minute"] = "compare"
  /\ IF exitedCount # Cardinality(exited)
     THEN RegisterAgain("minute")
     ELSE Go("minute", "tick") /\ UNCHANGED <<todo, svcList, errs>>
  /\ UNCHANGED <<envVars, failures, ServiceList, catalog, countVars, unregistered>>

\* After a RegisterAgain with no error the counts are read again, one after the other:
\* what has changed since the list was built is not seen as a change later.
CountRunning ==
  /\ pc["minute"] = "registering"
  /\ todo["minute"] = {}
  /\ ~errs["minute"]
  /\ Leave("minute", "count")
  /\ runningCount' = Cardinality(running)
  /\ UNCHANGED <<envVars, failures, ServiceList, catalog, todo, exitedCount,
                 unregistered>>

CountExited ==
  /\ pc["minute"] = "count"
  /\ Go("minute", "tick")
  /\ exitedCount' = Cardinality(exited)
  /\ UNCHANGED <<envVars, failures, ServiceList, catalog, todo, svcList, errs,
                 runningCount, unregistered>>

\* RegisterAgain has returned, with an error or to "quarter": no count is read.
Return(w) ==
  /\ pc[w] = "registering"
  /\ todo[w] = {}
  /\ w = "quarter" \/ errs[w]
  /\ Leave(w, "tick")
  /\ UNCHANGED <<envVars, failures, ServiceList, catalog, todo, countVars, unregistered>>

-----------------------------------------------------------------------------
(* NewServiceList and Updatesvclist.                                       *)

\* The loop takes the commands in the order of DCmds.
First(S) == CHOOSE c \in S : TRUE

\* The Status of the next command: an exited one is skipped.
Check(w, c) ==
  /\ pc[w] = "list"
  /\ c \in todo[w]
  /\ c = First(todo[w])
  /\ IF c \in running
     THEN Go(w, "lookup") /\ UNCHANGED todo
     ELSE todo' = [todo EXCEPT ![w] = @ \ {c}] /\ UNCHANGED pc
  /\ UNCHANGED <<envVars, failures, ServiceList, catalog, svcList, errs, countVars,
                 unregistered>>

\* Mutant of Visit: the continue after "pidaddr not found" is missing.
VisitUnfound(w, c) ==
  /\ pc[w] = "lookup"
  /\ c \in todo[w]
  /\ c = First(todo[w])
  /\ Go(w, "list")
  /\ todo' = [todo EXCEPT ![w] = @ \ {c}]
  /\ svcList' = [svcList EXCEPT ![w] = @ \cup {listens[c]}]
  /\ errs' = [errs EXCEPT ![w] = @ \/ listens[c] = None]
  /\ UNCHANGED <<envVars, failures, ServiceList, catalog, countVars, unregistered>>

\* A command that is in no line of lsof's output, or has no Process, because it does not
\* listen or has exited since Check, is an error, and the loop goes on.
Visit(w, c) ==
  /\ pc[w] = "lookup"
  /\ c \in todo[w]
  /\ c = First(todo[w])
  /\ Go(w, "list")
  /\ todo' = [todo EXCEPT ![w] = @ \ {c}]
  /\ svcList' = [svcList EXCEPT ![w] = @ \cup ({listens[c]} \cap Service)]
  /\ errs' = [errs EXCEPT ![w] = @ \/ listens[c] \notin Service]
  /\ UNCHANGED <<envVars, failures, ServiceList, catalog, countVars, unregistered>>

\* lsof fails, or newService does because there is no port in the address.  The result of
\* errors.Join is not assigned, so NewServiceList returns nil and the errors before this
\* one: if there are none, nil becomes the ServiceList.
LsofFails(w) ==
  /\ pc[w] = "lookup"
  /\ failures < MaxFailures
  /\ failures' = failures + 1
  /\ todo' = [todo EXCEPT ![w] = {}]
  /\ IF errs[w]
     THEN Leave(w, "tick") /\ UNCHANGED ServiceList
     ELSE /\ Go(w, "deregister")
          /\ ServiceList' = {}
          /\ svcList' = [svcList EXCEPT ![w] = {}]
          /\ UNCHANGED errs
  /\ UNCHANGED <<envVars, catalog, countVars, unregistered>>

\* Mutant of RefuseList: the goroutine returns where it should continue.
RefuseListReturn(w) ==
  /\ pc[w] = "list"
  /\ todo[w] = {}
  /\ errs[w]
  /\ UNCHANGED vars

\* NewServiceList returns an error: Updatesvclist keeps the old list, and RegisterAgain
\* returns.
RefuseList(w) ==
  /\ pc[w] = "list"
  /\ todo[w] = {}
  /\ errs[w]
  /\ Leave(w, "tick")
  /\ UNCHANGED <<envVars, failures, ServiceList, catalog, todo, countVars, unregistered>>

StoreList(w) ==
  /\ pc[w] = "list"
  /\ todo[w] = {}
  /\ ~errs[w]
  /\ ServiceList' = svcList[w]
  /\ Go(w, "deregister")
  /\ UNCHANGED <<envVars, failures, catalog, todo, svcList, errs, countVars, unregistered>>

-----------------------------------------------------------------------------
(* Deregister and Register: one request for each service of the list that  *)
(* the range statement finds.  An error is kept, and the loop goes on.     *)

Deregister(w) ==
  /\ pc[w] = "deregister"
  /\ Go(w, "deregistering")
  /\ todo' = [todo EXCEPT ![w] = ServiceList]
  /\ UNCHANGED <<envVars, failures, ServiceList, catalog, svcList, errs, countVars,
                 unregistered>>

\* Mutant of Register: it registers the list that this goroutine has built.
RegisterOwn(w) ==
  /\ pc[w] = "deregistering"
  /\ todo[w] = {}
  /\ Go(w, "registering")
  /\ todo' = [todo EXCEPT ![w] = svcList[w]]
  /\ UNCHANGED <<envVars, failures, ServiceList, catalog, svcList, errs, countVars,
                 unregistered>>

Register(w) ==
  /\ pc[w] = "deregistering"
  /\ todo[w] = {}
  /\ Go(w, "registering")
  /\ todo' = [todo EXCEPT ![w] = ServiceList]
  /\ UNCHANGED <<envVars, failures, ServiceList, catalog, svcList, errs, countVars,
                 unregistered>>

\* What a request of goroutine w about service s does to the catalog.
Applied(w, s) == IF pc[w] = "registering" THEN catalog \cup {s} ELSE catalog \ {s}

RequestOK(w, s) ==
  /\ pc[w] \in {"deregistering", "registering"}
  /\ s \in todo[w]
  /\ todo' = [todo EXCEPT ![w] = @ \ {s}]
  /\ catalog' = Applied(w, s)
  /\ unregistered' = IF pc[w] = "registering" THEN unregistered \ {s} ELSE unregistered
  /\ UNCHANGED <<envVars, failures, ServiceList, pc, svcList, errs, countVars>>

\* The agent refuses, or its answer is lost after it has applied the request.
RequestFails(w, s) ==
  /\ pc[w] \in {"deregistering", "registering"}
  /\ s \in todo[w]
  /\ failures < MaxFailures
  /\ failures' = failures + 1
  /\ todo' = [todo EXCEPT ![w] = @ \ {s}]
  /\ catalog' \in {catalog, Applied(w, s)}
  /\ errs' = [errs EXCEPT ![w] = TRUE]
  /\ unregistered' = IF pc[w] = "registering" THEN unregistered \cup {s} ELSE unregistered
  /\ UNCHANGED <<envVars, ServiceList, pc, svcList, countVars>>

-----------------------------------------------------------------------------

Watch(w) ==
  \/ w = "minute" /\ (MinuteTick \/ CompareExited \/ CountRunning \/ CountExited)
  \/ w = "quarter" /\ QuarterTick
  \/ LsofFails(w) \/ (\E c \in Cmd : Check(w, c) \/ Visit(w, c))
  \/ RefuseList(w) \/ StoreList(w) \/ Deregister(w) \/ Register(w)
  \/ \E s \in Service : RequestOK(w, s) \/ RequestFails(w, s)
  \/ Return(w)

ConsulNext ==
  \/ \E w \in Watcher : Watch(w)
  \/ \E c \in Cmd : CmdStarts(c) \/ CmdListens(c) \/ CmdExits(c)

\* The tickers tick for ever, and a request ends by its timeout at the latest.
ConsulSpec ==
  /\ ConsulInit
  /\ [][ConsulNext]_vars
  /\ \A w \in Watcher : WF_vars(Watch(w))

-----------------------------------------------------------------------------
(* Properties.                                                             *)

\* Goroutine w has yet to register service s, if s stays in the list.
WillRegister(w, s) ==
  \/ pc[w] \in {"deregister", "deregistering"}
  \/ pc[w] = "registering" /\ s \in todo[w]

\* The inductive form of ListRegistered: at any time, a service of the list is in the
\* catalog, or its registration has failed, or a goroutine has yet to register it.
ListInv ==
  \A s \in ServiceList :
    s \in catalog \cup unregistered \/ \E w \in Watcher : WillRegister(w, s)

\* When neither goroutine is deregistering or registering, every service of the list
\* is in the catalog, or its registration has failed, or it is one of the first list that
\* is not registered yet.  Each goroutine deregisters services that the other has just
\* registered, and replaces the list under the other's loops; it holds because Register
\* ranges over the list of that moment.
ListRegistered ==
  (\A w \in Watcher : pc[w] \in {"tick", "compare", "list", "lookup", "count"}) =>
    ServiceList \subseteq catalog \cup unregistered

\* If from some time on every running command listens and none starts or exits, then
\* their services are in the catalog again and again (each RegisterAgain takes them
\* out first), although the counts alone miss changes and lsof can fail.
RunningRegistered ==
  <>[][FALSE]_listens /\ <>[](\A c \in Cmd : listens[c] # None) =>
    []<>(\A c \in running : listens[c] \in catalog)
=============================================================================
