----------------------------- MODULE Coordinator -----------------------------
(***************************************************************************)
(* config/coordinator.go: one mutex, the list of subscribers and the       *)
(* configuration loaded last, under concurrent calls of Subscribe, Notify, *)
(* Reload and loadconfig.  Package main does not use the coordinator; its  *)
(* test calls loadconfig by itself, and recovers its panic.                *)
(*                                                                         *)
(* Reload calls loadconfig with the mutex in its hands, and loadconfig     *)
(* locks it again: sync.Mutex is not reentrant, so that is as far as a     *)
(* Reload gets.  Its lines after the call have no action here.             *)
(***************************************************************************)
EXTENDS Integers, Sequences

CONSTANTS
  Caller,      \* the goroutines, of one call each
  Subscriber,  \* the functions that subscribe
  Ss,          \* Ss[c]: the arguments of c, should it call Subscribe
  Conf         \* the well-formed contents of the configuration file

NoOne   == "no one"      \* the mutex is free
NoConf  == "nil"         \* no configuration is loaded
Missing == "missing"     \* the file cannot be read
Bad     == "malformed"   \* yaml.Unmarshal fails
Content == Conf \cup {Missing, Bad}

ASSUME CoordinatorAssumption ==
  /\ NoOne \notin Caller
  /\ {NoConf, Missing, Bad} \cap Conf = {}
  /\ Ss \in [Caller -> Seq(Subscriber)]

VARIABLES
  mu,           \* the holder of c.mu
  subscribers,  \* c.subscribers
  config,       \* c.config
  file,         \* the content of the file c.configFile
  op,           \* op[c]: what c calls
  pc,           \* pc[c]: where it is
  seen,         \* seen[c]: the slice of subscribers it has read
  next,         \* next[c]: the index its range over them has reached
  bytes,        \* bytes[c]: the content it has read
  told,         \* told[c]: the subscribers its Notify has called (history)
  failed,       \* failed[c]: the places among them of those that returned an error (history)
  wild,         \* wild[c]: its length of the slice is beyond the array it has read
  latest        \* the configuration that was read from the file last (history)

tellVars == <<told, failed, wild>>
callVars == <<op, pc, seen, next, bytes, tellVars>>
vars == <<mu, subscribers, config, file, callVars, latest>>

Ops == {"none", "Subscribe", "Notify", "Reload", "loadconfig"}
PCs == {"idle", "lock", "hold", "store", "storing", "relock", "range", "ok", "error", "panic"}

Returned(c) == pc[c] \in {"ok", "error", "panic"}

\* The variables keep their types; the mutex is held by the one call that is between
\* Lock and Unlock.
CoordinatorTypeOK ==
  /\ mu \in Caller \cup {NoOne}
  /\ subscribers \in Seq(Subscriber)
  /\ config \in Conf \cup {NoConf}
  /\ file \in Content
  /\ op \in [Caller -> Ops]
  /\ pc \in [Caller -> PCs]
  /\ seen \in [Caller -> Seq(Subscriber)]
  /\ next \in [Caller -> Nat \ {0}]
  /\ bytes \in [Caller -> Content]
  /\ told \in [Caller -> Seq(Subscriber)]
  /\ failed \in [Caller -> SUBSET (Nat \ {0})]
  /\ wild \in [Caller -> BOOLEAN]
  /\ latest \in Conf \cup {NoConf}
  /\ \A c \in Caller : pc[c] \in {"hold", "store", "storing", "relock"} <=> mu = c

Init ==
  /\ mu = NoOne
  /\ subscribers = <<>>
  /\ config = NoConf
  /\ file \in Content
  /\ op = [c \in Caller |-> "none"]
  /\ pc = [c \in Caller |-> "idle"]
  /\ seen = [c \in Caller |-> <<>>]
  /\ next = [c \in Caller |-> 1]
  /\ bytes = [c \in Caller |-> Missing]
  /\ told = [c \in Caller |-> <<>>]
  /\ failed = [c \in Caller |-> {}]
  /\ wild = [c \in Caller |-> FALSE]
  /\ latest = NoConf

-----------------------------------------------------------------------------

Call(c, what) ==
  /\ pc[c] = "idle"
  /\ what \in {"Subscribe", "Reload", "loadconfig"}
  /\ op' = [op EXCEPT ![c] = what]
  /\ pc' = [pc EXCEPT ![c] = "lock"]
  /\ UNCHANGED <<mu, subscribers, config, file, seen, next, bytes, tellVars, latest>>

\* Mutant of Lock: the methods lock nothing.
LockNothing(c) ==
  /\ pc[c] = "lock"
  /\ mu' = c
  /\ pc' = [pc EXCEPT ![c] = IF op[c] = "Reload" THEN "relock" ELSE "hold"]
  /\ UNCHANGED <<subscribers, config, file, op, seen, next, bytes, tellVars, latest>>

\* c.mu.Lock().  In Reload the Lock of loadconfig is next, and waits for ever.
Lock(c) ==
  /\ pc[c] = "lock"
  /\ mu = NoOne
  /\ mu' = c
  /\ pc' = [pc EXCEPT ![c] = IF op[c] = "Reload" THEN "relock" ELSE "hold"]
  /\ UNCHANGED <<subscribers, config, file, op, seen, next, bytes, tellVars, latest>>

\* The deferred Unlock, and the return or the panic
Unlock(c, result) ==
  /\ mu' = NoOne
  /\ pc' = [pc EXCEPT ![c] = result]

-----------------------------------------------------------------------------
(* Subscribe: append(c.subscribers, ss...)                                 *)

ReadSubscribers(c) ==
  /\ pc[c] = "hold"
  /\ op[c] = "Subscribe"
  /\ pc' = [pc EXCEPT ![c] = "store"]
  /\ seen' = [seen EXCEPT ![c] = subscribers]
  /\ UNCHANGED <<mu, subscribers, config, file, op, next, bytes, tellVars, latest>>

\* The slice is three words, and its length is stored before the pointer to its array.
StoreLength(c) ==
  /\ pc[c] = "store"
  /\ op[c] = "Subscribe"
  /\ pc' = [pc EXCEPT ![c] = "storing"]
  /\ UNCHANGED <<mu, subscribers, config, file, op, seen, next, bytes, tellVars, latest>>

StoreSubscribers(c) ==
  /\ pc[c] = "storing"
  /\ subscribers' = seen[c] \o Ss[c]
  /\ Unlock(c, "ok")
  /\ UNCHANGED <<config, file, op, seen, next, bytes, tellVars, latest>>

-----------------------------------------------------------------------------
(* Notify: no lock, and a range over the slice it finds.                   *)

\* A length with more than the array the pointer still points to can be read.
Torn == \E c \in Caller : pc[c] = "storing" /\ Ss[c] # <<>>

Notify(c) ==
  /\ pc[c] = "idle"
  /\ op' = [op EXCEPT ![c] = "Notify"]
  /\ pc' = [pc EXCEPT ![c] = "range"]
  /\ seen' = [seen EXCEPT ![c] = subscribers]
  /\ \E beyond \in BOOLEAN :
       /\ beyond => Torn
       /\ wild' = [wild EXCEPT ![c] = beyond]
  /\ UNCHANGED <<mu, subscribers, config, file, next, bytes, told, failed, latest>>

\* The subscriber at next[c] is called, and returns an error or nil.
Calls(c, err) ==
  /\ pc[c] = "range"
  /\ next[c] <= Len(seen[c])
  /\ told' = [told EXCEPT ![c] = Append(@, seen[c][next[c]])]
  /\ failed' = IF err THEN [failed EXCEPT ![c] = @ \cup {next[c]}] ELSE failed
  /\ UNCHANGED <<mu, subscribers, config, file, op, seen, bytes, wild, latest>>

\* Mutant of Tell: the error of a subscriber is logged and passed over.
TellOn(c, err) ==
  /\ Calls(c, err)
  /\ next' = [next EXCEPT ![c] = @ + 1]
  /\ UNCHANGED pc

\* s(c.config), of the configuration at that moment.  An error ends the call.
Tell(c, err) ==
  /\ Calls(c, err)
  /\ next' = [next EXCEPT ![c] = IF err THEN @ ELSE @ + 1]
  /\ pc' = [pc EXCEPT ![c] = IF err THEN "error" ELSE "range"]

\* What lies beyond the array is called: nil, as a rule, or anything.  The call ends here.
TellBeyond(c) ==
  /\ pc[c] = "range"
  /\ next[c] > Len(seen[c])
  /\ wild[c]
  /\ pc' = [pc EXCEPT ![c] = "panic"]
  /\ UNCHANGED <<mu, subscribers, config, file, op, seen, next, bytes, tellVars, latest>>

AllTold(c) ==
  /\ pc[c] = "range"
  /\ next[c] > Len(seen[c])
  /\ ~wild[c]
  /\ pc' = [pc EXCEPT ![c] = "ok"]
  /\ UNCHANGED <<mu, subscribers, config, file, op, seen, next, bytes, tellVars, latest>>

-----------------------------------------------------------------------------
(* loadconfig                                                              *)

ReadFile(c) ==
  /\ pc[c] = "hold"
  /\ op[c] = "loadconfig"
  /\ pc' = [pc EXCEPT ![c] = "store"]
  /\ bytes' = [bytes EXCEPT ![c] = file]
  /\ latest' = IF file \in Conf THEN file ELSE latest
  /\ UNCHANGED <<mu, subscribers, config, file, op, seen, next, tellVars>>

\* Mutant of Loaded: the return of the read error comes before the defer of Unlock.
LoadedLocked(c) ==
  /\ pc[c] = "store"
  /\ op[c] = "loadconfig"
  /\ IF bytes[c] = Missing
     THEN /\ pc' = [pc EXCEPT ![c] = "error"]
          /\ UNCHANGED <<mu, config>>
     ELSE /\ Unlock(c, IF bytes[c] = Bad THEN "panic" ELSE "ok")
          /\ config' = IF bytes[c] \in Conf THEN bytes[c] ELSE config
  /\ UNCHANGED <<subscribers, file, op, seen, next, bytes, tellVars, latest>>

\* Mutant of Loaded: c.config is reset to nil before Unmarshal, which may panic.
LoadedNil(c) ==
  /\ pc[c] = "store"
  /\ op[c] = "loadconfig"
  /\ Unlock(c, IF bytes[c] = Missing THEN "error"
               ELSE IF bytes[c] = Bad THEN "panic" ELSE "ok")
  /\ config' = IF bytes[c] \in Conf THEN bytes[c]
               ELSE IF bytes[c] = Bad THEN NoConf ELSE config
  /\ UNCHANGED <<subscribers, file, op, seen, next, bytes, tellVars, latest>>

\* A read error is returned, and Unmarshal panics on a malformed content.
Loaded(c) ==
  /\ pc[c] = "store"
  /\ op[c] = "loadconfig"
  /\ Unlock(c, IF bytes[c] = Missing THEN "error"
               ELSE IF bytes[c] = Bad THEN "panic" ELSE "ok")
  /\ config' = IF bytes[c] \in Conf THEN bytes[c] ELSE config
  /\ UNCHANGED <<subscribers, file, op, seen, next, bytes, tellVars, latest>>

-----------------------------------------------------------------------------

\* The operator, or a git pull, changes the file.
Edit ==
  /\ file' \in Content \ {file}
  /\ UNCHANGED <<mu, subscribers, config, callVars, latest>>

Begin(c) == Notify(c) \/ \E what \in Ops : Call(c, what)

Progress(c) ==
  \/ ReadSubscribers(c) \/ StoreLength(c) \/ StoreSubscribers(c)
  \/ \E err \in BOOLEAN : Tell(c, err)
  \/ TellBeyond(c) \/ AllTold(c)
  \/ ReadFile(c) \/ Loaded(c)

Next == Edit \/ \E c \in Caller : Begin(c) \/ Lock(c) \/ Progress(c)

\* Subscribers return, and a sync.Mutex starves no waiter.
Fairness == \A c \in Caller : WF_vars(Progress(c)) /\ SF_vars(Lock(c))

Spec == Init /\ [][Next]_vars /\ Fairness

-----------------------------------------------------------------------------
(* Properties.                                                             *)

Listed(s) == \E i \in DOMAIN subscribers : subscribers[i] = s

\* No subscription is lost to a concurrent one, although append reads and writes.  (The
\* promise of module CoordinatorPromise says more, so TLC does not check this one.)
SubscriptionsKept ==
  \A c \in Caller : op[c] = "Subscribe" /\ Returned(c) =>
    \A i \in DOMAIN Ss[c] : Listed(Ss[c][i])

\* Of concurrent loads the one that has read the file last wins: no call puts back the
\* content of a file that another has already seen replaced.
ConfigLatest == mu = NoOne => config = latest

\* A Notify without a lock calls the subscribers in their order, from the first one on,
\* each once.  It returns nil when all that had subscribed before it are told and none of
\* them fails, and an error at the first that fails, and those after that one are not told.
\* It goes beyond them only if it began in the midst of a Subscribe.
NotifiedInOrder ==
  \A c \in Caller : op[c] = "Notify" =>
    /\ told[c] = SubSeq(subscribers, 1, Len(told[c]))
    /\ pc[c] = "range" => failed[c] = {}
    /\ pc[c] = "ok" => told[c] = seen[c] /\ failed[c] = {}
    /\ pc[c] = "error" => failed[c] = {Len(told[c])}
    /\ pc[c] = "panic" => told[c] = seen[c] /\ failed[c] = {} /\ wild[c]

\* Every call returns, unless there is a Reload: nothing else keeps the mutex, whatever
\* fails or panics.
CallsReturn ==
  \A c \in Caller :
    op[c] \in {"Subscribe", "Notify", "loadconfig"} ~>
      Returned(c) \/ \E r \in Caller : op[r] = "Reload"
=============================================================================
