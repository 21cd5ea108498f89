------------------------- MODULE CoordinatorProofs --------------------------
(***************************************************************************)
(* What the mutex of the coordinator is for, for any number of calls and   *)
(* subscribers and any history of the file: no subscription is lost, and   *)
(* the configuration is that of the last load.  And what Notify promises   *)
(* without it.  Together: the calls are linearizable.                      *)
(***************************************************************************)
EXTENDS CoordinatorImplements, TLAPS

USE DEF tellVars

\* A call keeps what it has read while it has the mutex: the list of subscribers, or
\* the configuration.
HeldInv ==
  /\ \A c \in Caller :
       /\ pc[c] = "store" => op[c] \in {"Subscribe", "loadconfig"}
       /\ pc[c] = "storing" => op[c] = "Subscribe"
       /\ pc[c] \in {"store", "storing"} /\ op[c] = "Subscribe" => seen[c] = subscribers
  /\ \/ config = latest
     \/ \E c \in Caller : pc[c] = "store" /\ op[c] = "loadconfig" /\ bytes[c] = latest
  /\ \A c \in Caller :
       pc[c] = "store" /\ op[c] = "loadconfig" =>
         IF bytes[c] \in Conf THEN latest = bytes[c] ELSE config = latest

\* The list only grows, so what a Notify ranges over stays its beginning, and what it
\* has called is the beginning of that.
TellInv ==
  \A c \in Caller : op[c] = "Notify" =>
    /\ pc[c] \in {"range", "ok", "error", "panic"}
    /\ Len(seen[c]) <= Len(subscribers)
    /\ \A i \in 1..Len(seen[c]) : seen[c][i] = subscribers[i]
    /\ \A i \in 1..Len(told[c]) : told[c][i] = seen[c][i]
    /\ Len(told[c]) <= Len(seen[c])
    /\ pc[c] = "range" => next[c] = Len(told[c]) + 1
    /\ failed[c] = IF pc[c] = "error" THEN {Len(told[c])} ELSE {}
    /\ pc[c] \in {"ok", "panic"} => Len(told[c]) = Len(seen[c])
    /\ pc[c] = "panic" => wild[c]

\* A call has no operation before it begins, and none but Notify goes without the mutex.
CallInv ==
  \A c \in Caller :
    /\ pc[c] = "idle" => /\ op[c] = "none" /\ next[c] = 1 /\ told[c] = <<>>
                         /\ failed[c] = {} /\ ~wild[c]
    /\ pc[c] = "range" => op[c] = "Notify"
    /\ pc[c] = "hold" => op[c] \in {"Subscribe", "loadconfig"}
    /\ pc[c] = "lock" => op[c] \in {"Subscribe", "loadconfig", "Reload"}

CoordinatorInv ==
  CoordinatorTypeOK /\ CallInv /\ HeldInv /\ TellInv /\ SubscriptionsKept

\* The domain of a sequence
LEMMA SeqDomain == ASSUME NEW s \in Seq(Subscriber)
                   PROVE  Len(s) \in Nat /\ DOMAIN s = 1..Len(s)
OBVIOUS

\* The invariant holds at the start.
LEMMA CoordinatorInit == Init => CoordinatorInv
BY CoordinatorAssumption DEF Init, CoordinatorInv, CoordinatorTypeOK, CallInv, HeldInv, TellInv,
   SubscriptionsKept, Returned, Ops, PCs, Content

\* Every step keeps the types, and the mutex with one call.
LEMMA CoordinatorTypeStep ==
  ASSUME CoordinatorInv, [Next]_vars
  PROVE  CoordinatorTypeOK'
<1> USE CoordinatorAssumption DEF CoordinatorInv, CoordinatorTypeOK, Content
<1>1. CASE UNCHANGED vars
  BY <1>1 DEF vars, callVars
<1>2. CASE Edit
  BY <1>2 DEF Edit, callVars
<1>3. ASSUME NEW c \in Caller, Notify(c) PROVE CoordinatorTypeOK'
  <2>1. PICK beyond \in BOOLEAN : wild' = [wild EXCEPT ![c] = beyond]
    BY <1>3 DEF Notify
  <2>2. wild' \in [Caller -> BOOLEAN]
    BY <2>1
  <2>3. QED
    BY <1>3, <2>2 DEF Notify, Ops, PCs
<1>4. ASSUME NEW c \in Caller, NEW what \in Ops, Call(c, what) PROVE CoordinatorTypeOK'
  BY <1>4 DEF Call, PCs
<1>5. ASSUME NEW c \in Caller, Lock(c) PROVE CoordinatorTypeOK'
  BY <1>5 DEF Lock, PCs
<1>6. ASSUME NEW c \in Caller, ReadSubscribers(c) PROVE CoordinatorTypeOK'
  BY <1>6 DEF ReadSubscribers, PCs
<1>12. ASSUME NEW c \in Caller, ReadFile(c) PROVE CoordinatorTypeOK'
  BY <1>12 DEF ReadFile, PCs
<1>7. ASSUME NEW c \in Caller, StoreLength(c) \/ StoreSubscribers(c) PROVE CoordinatorTypeOK'
  <2>1. CASE StoreLength(c)
    BY <2>1 DEF StoreLength, PCs
  <2>2. CASE StoreSubscribers(c)
    BY <2>2 DEF StoreSubscribers, Unlock, PCs
  <2>3. QED
    BY <1>7, <2>1, <2>2
<1>8. ASSUME NEW c \in Caller, Loaded(c) PROVE CoordinatorTypeOK'
  BY <1>8 DEF Loaded, Unlock, PCs
<1>9. ASSUME NEW c \in Caller, NEW err \in BOOLEAN, Tell(c, err) PROVE CoordinatorTypeOK'
  <2>1. seen[c] \in Seq(Subscriber) /\ next[c] \in 1..Len(seen[c]) /\ told[c] \in Seq(Subscriber)
    BY <1>9 DEF Tell, Calls
  <2>2. Append(told[c], seen[c][next[c]]) \in Seq(Subscriber)
    BY <2>1
  <2>3. (IF err THEN next[c] ELSE next[c] + 1) \in Nat \ {0}
    BY <2>1
  <2>4. told' \in [Caller -> Seq(Subscriber)] /\ next' \in [Caller -> Nat \ {0}]
    BY <1>9, <2>2, <2>3 DEF Tell, Calls
  <2>5. /\ pc[c] = "range"
        /\ pc' = [pc EXCEPT ![c] = IF err THEN "error" ELSE "range"]
        /\ UNCHANGED <<mu, subscribers, config, file, op, seen, bytes, wild, latest>>
    BY <1>9 DEF Tell, Calls
  <2>6. /\ pc' \in [Caller -> PCs]
        /\ \A d \in Caller : pc'[d] \in {"hold", "store", "storing", "relock"} <=> mu' = d
    BY <2>5 DEF PCs
  <2>7. failed' \in [Caller -> SUBSET (Nat \ {0})]
    BY <1>9, <2>1 DEF Tell, Calls
  <2>8. QED
    BY <2>4, <2>5, <2>6, <2>7
<1>10. ASSUME NEW c \in Caller, AllTold(c) \/ TellBeyond(c) PROVE CoordinatorTypeOK'
  BY <1>10 DEF AllTold, TellBeyond, PCs
<1>11. ASSUME NEW c \in Caller, Begin(c) \/ Lock(c) \/ Progress(c) PROVE CoordinatorTypeOK'
  BY ONLY <1>3, <1>4, <1>5, <1>6, <1>7, <1>8, <1>9, <1>10, <1>11, <1>12 DEF Begin, Progress
<1>13. QED
  BY <1>1, <1>2, <1>11 DEF Next

\* Steps outside the mutex: the file changes, and calls begin.
LEMMA BeginStep ==
  ASSUME CoordinatorInv, CoordinatorTypeOK',
         Edit \/ UNCHANGED vars \/ \E c \in Caller : Begin(c)
  PROVE  CoordinatorInv'
<1>1. CASE Edit \/ UNCHANGED vars
  <2>1. UNCHANGED <<mu, subscribers, config, callVars, latest>>
    BY <1>1 DEF Edit, vars
  <2>2. CallInv' /\ HeldInv'
    BY <2>1 DEF CoordinatorInv, CallInv, HeldInv, callVars
  <2>3. TellInv' /\ SubscriptionsKept'
    BY <2>1 DEF CoordinatorInv, TellInv, SubscriptionsKept, Returned, Listed, callVars
  <2>4. QED
    BY <2>2, <2>3 DEF CoordinatorInv
<1>2. ASSUME NEW c \in Caller, NEW what \in Ops, Call(c, what) PROVE CoordinatorInv'
  <2> USE <1>2 DEF CoordinatorInv, CoordinatorTypeOK
  <2>1. /\ pc[c] = "idle" /\ what \in {"Subscribe", "Reload", "loadconfig"}
        /\ op' = [op EXCEPT ![c] = what] /\ pc' = [pc EXCEPT ![c] = "lock"]
        /\ UNCHANGED <<mu, subscribers, config, file, seen, next, bytes, tellVars, latest>>
    BY DEF Call
  <2>2. CallInv'
    BY <2>1 DEF CallInv
  <2>3. HeldInv'
    BY <2>1 DEF HeldInv
  <2>4. TellInv'
    BY <2>1 DEF TellInv
  <2>5. SubscriptionsKept'
    BY <2>1 DEF SubscriptionsKept, Returned, Listed
  <2>6. QED
    BY <2>2, <2>3, <2>4, <2>5
<1>3. ASSUME NEW c \in Caller, Notify(c) PROVE CoordinatorInv'
  <2> USE <1>3 DEF CoordinatorInv, CoordinatorTypeOK
  <2>1. /\ pc[c] = "idle" /\ op[c] = "none" /\ next[c] = 1 /\ told[c] = <<>> /\ failed[c] = {}
        /\ op' = [op EXCEPT ![c] = "Notify"] /\ pc' = [pc EXCEPT ![c] = "range"]
        /\ seen' = [seen EXCEPT ![c] = subscribers]
        /\ \A d \in Caller \ {c} : wild'[d] = wild[d]
        /\ UNCHANGED <<mu, subscribers, config, file, next, bytes, told, failed, latest>>
    BY DEF Notify, CallInv
  <2>2. CallInv'
    BY <2>1 DEF CallInv
  <2>3. HeldInv'
    BY <2>1 DEF HeldInv
  <2>4. TellInv'
    BY <2>1 DEF TellInv
  <2>5. SubscriptionsKept'
    BY <2>1 DEF SubscriptionsKept, Returned, Listed
  <2>6. QED
    BY <2>2, <2>3, <2>4, <2>5
<1>4. QED
  BY <1>1, <1>2, <1>3 DEF Begin

\* Steps of a call that takes the mutex, or reads with it in its hands
LEMMA HoldStep ==
  ASSUME CoordinatorInv, CoordinatorTypeOK', NEW c \in Caller,
         Lock(c) \/ ReadSubscribers(c) \/ StoreLength(c) \/ ReadFile(c)
  PROVE  CoordinatorInv'
<1> USE DEF CoordinatorInv, CoordinatorTypeOK
<1>1. CallInv'
  BY DEF CallInv, HeldInv, Lock, ReadSubscribers, StoreLength, ReadFile
<1>2. \A d \in Caller : pc[d] \in {"store", "storing"} => mu = d
  OBVIOUS
<1>3. HeldInv'
  BY <1>2 DEF CallInv, HeldInv, Lock, ReadSubscribers, StoreLength, ReadFile
<1>7. /\ op[c] # "Notify" /\ pc'[c] \in {"hold", "relock", "store", "storing"}
      /\ \A d \in Caller : d # c => pc'[d] = pc[d] /\ seen'[d] = seen[d]
      /\ UNCHANGED <<subscribers, op, next, told, failed, wild>>
  BY DEF CallInv, HeldInv, Lock, ReadSubscribers, StoreLength, ReadFile
<1>4. TellInv'
  <2> SUFFICES ASSUME NEW d \in Caller, op[d] = "Notify"
               PROVE  TellInv!(d)'
    BY <1>7 DEF TellInv
  <2>1. d # c /\ pc'[d] = pc[d] /\ seen'[d] = seen[d]
    BY <1>7
  <2>2. TellInv!(d)
    BY DEF TellInv
  <2>3. /\ op'[d] = op[d] /\ subscribers' = subscribers /\ next'[d] = next[d]
        /\ told'[d] = told[d] /\ failed'[d] = failed[d] /\ wild'[d] = wild[d]
    BY <1>7
  <2>4. QED
    BY <2>1, <2>2, <2>3
<1>5. SubscriptionsKept'
  <2> SUFFICES ASSUME NEW d \in Caller, op[d] = "Subscribe", Returned(d)',
                      NEW i \in DOMAIN Ss[d]
               PROVE  Listed(Ss[d][i])'
    BY <1>7 DEF SubscriptionsKept
  <2>1. Returned(d)
    BY <1>7 DEF Returned
  <2>2. QED
    BY <1>7, <2>1 DEF SubscriptionsKept, Listed
<1>6. QED
  BY <1>1, <1>3, <1>4, <1>5

\* The two stores under the mutex
LEMMA StoreStep ==
  ASSUME CoordinatorInv, CoordinatorTypeOK', NEW c \in Caller,
         StoreSubscribers(c) \/ Loaded(c)
  PROVE  CoordinatorInv'
<1> USE DEF CoordinatorInv, CoordinatorTypeOK
<1>1. CallInv'
  BY DEF CallInv, StoreSubscribers, Loaded, Unlock
<1>2. \A d \in Caller : pc[d] \in {"store", "storing"} => d = c
  BY DEF StoreSubscribers, Loaded
<1>3. CASE StoreSubscribers(c)
  <2>1. /\ op[c] = "Subscribe" /\ pc[c] = "storing" /\ seen[c] = subscribers
        /\ pc' = [pc EXCEPT ![c] = "ok"]
        /\ subscribers' = subscribers \o Ss[c]
        /\ UNCHANGED <<config, file, op, seen, next, bytes, told, failed, wild, latest>>
    BY <1>3 DEF StoreSubscribers, Unlock, HeldInv
  <2>2. /\ Ss[c] \in Seq(Subscriber)
        /\ Len(subscribers') = Len(subscribers) + Len(Ss[c])
        /\ \A i \in 1..Len(subscribers) : subscribers'[i] = subscribers[i]
        /\ \A i \in 1..Len(Ss[c]) : subscribers'[Len(subscribers) + i] = Ss[c][i]
    BY <2>1, CoordinatorAssumption
  <2>3. HeldInv'
    BY <1>2, <2>1 DEF HeldInv
  <2>4. TellInv'
    <3> SUFFICES ASSUME NEW d \in Caller, op[d] = "Notify"
                 PROVE  TellInv!(d)'
      BY <2>1 DEF TellInv
    <3>1. d # c /\ pc'[d] = pc[d]
      BY <2>1
    <3>2. QED
      BY <2>1, <2>2, <3>1 DEF TellInv
  <2>5. SubscriptionsKept'
    <3>1. SUFFICES ASSUME NEW d \in Caller, op[d] = "Subscribe", Returned(d)',
                          NEW i \in DOMAIN Ss[d]
                   PROVE  \E j \in DOMAIN subscribers' : subscribers'[j] = Ss[d][i]
      BY <2>1 DEF SubscriptionsKept, Listed
    <3>5. /\ Len(subscribers) \in Nat /\ DOMAIN subscribers = 1..Len(subscribers)
          /\ Len(Ss[c]) \in Nat /\ DOMAIN Ss[c] = 1..Len(Ss[c])
          /\ DOMAIN subscribers' = 1..Len(subscribers')
      <4>1. subscribers \in Seq(Subscriber) /\ subscribers' \in Seq(Subscriber)
        OBVIOUS
      <4> HIDE DEF CoordinatorInv, CoordinatorTypeOK
      <4>2. QED
        BY ONLY <2>2, <4>1, SeqDomain
    <3>6. /\ \A k \in DOMAIN subscribers : \E j \in DOMAIN subscribers' : subscribers'[j] = subscribers[k]
          /\ \A k \in DOMAIN Ss[c] : \E j \in DOMAIN subscribers' : subscribers'[j] = Ss[c][k]
      <4>1. ASSUME NEW k \in DOMAIN subscribers
            PROVE  k \in DOMAIN subscribers' /\ subscribers'[k] = subscribers[k]
        BY ONLY <2>2, <3>5, <4>1
      <4>2. ASSUME NEW k \in DOMAIN Ss[c]
            PROVE  /\ Len(subscribers) + k \in DOMAIN subscribers'
                   /\ subscribers'[Len(subscribers) + k] = Ss[c][k]
        BY ONLY <2>2, <3>5, <4>2
      <4>3. QED
        BY ONLY <4>1, <4>2
    <3>2. CASE d = c
      BY <3>2, <3>6
    <3>3. CASE d # c
      <4>1. Returned(d)
        BY <2>1, <3>1, <3>3 DEF Returned
      <4>2. PICK j \in DOMAIN subscribers : subscribers[j] = Ss[d][i]
        BY <3>1, <4>1 DEF SubscriptionsKept, Listed
      <4>3. QED
        BY <3>6, <4>2
    <3>4. QED
      BY <3>2, <3>3
  <2>6. QED
    BY <1>1, <2>3, <2>4, <2>5
<1>4. CASE Loaded(c)
  <2>1. HeldInv'
    BY <1>2, <1>4 DEF HeldInv, Loaded, Unlock
  <2>2. TellInv'
    BY <1>4 DEF TellInv, Loaded, Unlock
  <2>3. SubscriptionsKept'
    BY <1>4 DEF SubscriptionsKept, Returned, Listed, Loaded, Unlock
  <2>4. QED
    BY <1>1, <2>1, <2>2, <2>3
<1>5. QED
  BY <1>3, <1>4

\* Steps of a Notify
LEMMA NotifyStep ==
  ASSUME CoordinatorInv, CoordinatorTypeOK', NEW c \in Caller,
         AllTold(c) \/ TellBeyond(c) \/ \E err \in BOOLEAN : Tell(c, err)
  PROVE  CoordinatorInv'
<1> USE DEF CoordinatorInv, CoordinatorTypeOK
<1>1. /\ pc[c] = "range" /\ op[c] = "Notify" /\ pc'[c] \in {"range", "ok", "error", "panic"}
      /\ \A d \in Caller : d # c => /\ pc'[d] = pc[d] /\ next'[d] = next[d]
                                    /\ told'[d] = told[d] /\ failed'[d] = failed[d]
      /\ UNCHANGED <<mu, subscribers, config, file, op, seen, bytes, wild, latest>>
  BY DEF CallInv, AllTold, TellBeyond, Tell, Calls
<1>2. CallInv' /\ HeldInv'
  <2>1. CallInv'
    BY <1>1 DEF CallInv
  <2>2. \A d \in Caller : pc'[d] \in {"store", "storing"} <=> pc[d] \in {"store", "storing"}
    BY <1>1
  <2>3. \A d \in Caller : pc'[d] = "store" <=> pc[d] = "store"
    BY <1>1
  <2>4. HeldInv'
    BY <1>1, <2>2, <2>3 DEF HeldInv
  <2>5. QED
    BY <2>1, <2>4
<1>3. SubscriptionsKept'
  <2>1. \A d \in Caller : op[d] = "Subscribe" => pc'[d] = pc[d]
    BY <1>1
  <2>2. UNCHANGED <<op, subscribers>>
    BY <1>1
  <2>3. QED
    BY <2>1, <2>2 DEF SubscriptionsKept, Returned, Listed
<1>4. TellInv'
  <2>1. CASE AllTold(c) \/ TellBeyond(c)
    <3>1. /\ UNCHANGED <<subscribers, op, seen, next, told, failed, wild>>
          /\ next[c] > Len(seen[c])
          /\ pc'[c] = "ok" \/ (pc'[c] = "panic" /\ wild[c])
      BY <2>1 DEF AllTold, TellBeyond
    <3>2. /\ next[c] = Len(told[c]) + 1 /\ Len(told[c]) <= Len(seen[c])
          /\ failed[c] = {}
      BY <1>1 DEF TellInv
    <3>3. Len(told[c]) \in Nat /\ Len(seen[c]) \in Nat
      BY SeqDomain
    <3>4. Len(told[c]) = Len(seen[c])
      BY <3>1, <3>2, <3>3
    <3>5. \A d \in Caller : d # c => pc'[d] = pc[d]
      BY <1>1
    <3>6. SUFFICES ASSUME NEW d \in Caller, op[d] = "Notify" PROVE TellInv!(d)!2'
      BY <3>1 DEF TellInv
    <3> HIDE DEF CoordinatorTypeOK
    <3>7. CASE d # c
      BY <3>1, <3>5, <3>6, <3>7 DEF TellInv
    <3>8. CASE d = c
      BY <3>1, <3>2, <3>4, <3>6, <3>8 DEF TellInv
    <3>9. QED
      BY <3>7, <3>8
  <2>2. ASSUME NEW err \in BOOLEAN, Tell(c, err) PROVE TellInv'
    <3>1. /\ told' = [told EXCEPT ![c] = Append(told[c], seen[c][next[c]])]
          /\ failed[c] = {}
          /\ failed' = IF err THEN [failed EXCEPT ![c] = failed[c] \cup {next[c]}] ELSE failed
          /\ next[c] = Len(told[c]) + 1 /\ next[c] <= Len(seen[c])
          /\ next' = [next EXCEPT ![c] = IF err THEN next[c] ELSE next[c] + 1]
          /\ pc' = [pc EXCEPT ![c] = IF err THEN "error" ELSE "range"]
      BY <1>1, <2>2 DEF Tell, Calls, TellInv
    <3>2. seen[c][next[c]] \in Subscriber
      BY <3>1
    <3>3. /\ Len(told'[c]) = Len(told[c]) + 1
          /\ \A i \in 1..Len(told[c]) : told'[c][i] = told[c][i]
          /\ told'[c][next[c]] = seen[c][next[c]]
      BY <3>1, <3>2
    <3>4. SUFFICES ASSUME NEW d \in Caller, op[d] = "Notify" PROVE TellInv!(d)!2'
      BY <1>1 DEF TellInv
    <3>5. CASE d # c
      BY <1>1, <3>4, <3>5 DEF TellInv
    <3>6. CASE d = c
      <4>1. pc'[c] = (IF err THEN "error" ELSE "range")
        BY <3>1
      <4>2. next'[c] = (IF err THEN next[c] ELSE next[c] + 1)
        BY <3>1
      <4>3. failed'[c] = (IF err THEN {next[c]} ELSE {})
        <5>1. CASE err
          <6>1. failed'[c] = failed[c] \cup {next[c]}
            BY <3>1, <5>1
          <6>2. QED
            BY <3>1, <5>1, <6>1
        <5>2. CASE ~err
          BY <3>1, <5>2
        <5>3. QED
          BY <5>1, <5>2
      <4>4. /\ Len(told'[c]) = next[c] /\ next[c] \in Nat
            /\ Len(told[c]) \in Nat /\ Len(seen[c]) \in Nat
        BY <3>1, <3>3
      <4>5. \A i \in 1..Len(told'[c]) : told'[c][i] = seen[c][i]
        BY <1>1, <3>1, <3>3, <4>4 DEF TellInv
      <4>6. /\ Len(seen[c]) <= Len(subscribers)
            /\ \A i \in 1..Len(seen[c]) : seen[c][i] = subscribers[i]
        BY <1>1 DEF TellInv
      <4>7. Len(told'[c]) <= Len(seen[c])
        BY <3>1, <4>4
      <4>8. pc'[c] = "range" => next'[c] = Len(told'[c]) + 1
        BY <4>1, <4>2, <4>4
      <4>9. failed'[c] = IF pc'[c] = "error" THEN {Len(told'[c])} ELSE {}
        BY <4>1, <4>3, <4>4
      <4> HIDE DEF CoordinatorInv, CoordinatorTypeOK
      <4>10. QED
        BY <1>1, <3>6, <4>1, <4>5, <4>6, <4>7, <4>8, <4>9
    <3>7. QED
      BY <3>5, <3>6
  <2>3. QED
    BY <2>1, <2>2
<1>5. QED
  BY <1>2, <1>3, <1>4

\* The inductive invariant of the coordinator
THEOREM CoordinatorInductive == Spec => []CoordinatorInv
<1>1. CoordinatorInv /\ [Next]_vars => CoordinatorInv'
  BY CoordinatorTypeStep, BeginStep, HoldStep, StoreStep, NotifyStep DEF Next, Progress
<1>2. QED
  BY <1>1, CoordinatorInit, PTL DEF Spec

\* The mutex has one holder at a time, and every variable its type.
THEOREM CoordinatorTypes == Spec => []CoordinatorTypeOK
BY CoordinatorInductive, PTL DEF CoordinatorInv

\* Concurrent calls of Subscribe lose no subscriber.
THEOREM NoSubscriptionLost == Spec => []SubscriptionsKept
BY CoordinatorInductive, PTL DEF CoordinatorInv

\* When nobody has the mutex, the configuration is the one that was read last.
THEOREM LatestLoaded == Spec => []ConfigLatest
<1>1. CoordinatorInv => ConfigLatest
  BY CoordinatorAssumption DEF CoordinatorInv, CoordinatorTypeOK, HeldInv, ConfigLatest
<1>2. QED
  BY <1>1, CoordinatorInductive, PTL

\* Notify tells the subscribers in their order, and stops at the first that fails.
THEOREM NotifyCorrect == Spec => []NotifiedInOrder
<1>1. CoordinatorInv => NotifiedInOrder
  <2> SUFFICES ASSUME CoordinatorInv, NEW c \in Caller, op[c] = "Notify"
               PROVE  NotifiedInOrder!(c)!2
    BY DEF NotifiedInOrder
  <2>1. TellInv!(c)!2
    BY DEF CoordinatorInv, TellInv
  <2>2. /\ subscribers \in Seq(Subscriber) /\ seen[c] \in Seq(Subscriber)
        /\ told[c] \in Seq(Subscriber)
    BY DEF CoordinatorInv, CoordinatorTypeOK
  <2>3. /\ Len(told[c]) <= Len(seen[c]) /\ Len(seen[c]) <= Len(subscribers)
        /\ \A i \in 1..Len(told[c]) : told[c][i] = seen[c][i]
        /\ \A i \in 1..Len(seen[c]) : seen[c][i] = subscribers[i]
    BY <2>1
  <2>4. told[c] = SubSeq(subscribers, 1, Len(told[c]))
    BY <2>2, <2>3
  <2>5. Len(told[c]) = Len(seen[c]) => told[c] = seen[c]
    BY <2>2, <2>3
  <2>6. QED
    BY <2>1, <2>4, <2>5
<1>2. QED
  BY <1>1, CoordinatorInductive, PTL

-----------------------------------------------------------------------------
(* The coordinator implements CoordinatorPromise.                          *)

\* The configuration on its way to c.config is the one that was read last.
LEMMA ConfIsLatest == CoordinatorInv => confOf = latest
<1> SUFFICES ASSUME CoordinatorInv PROVE confOf = latest
  OBVIOUS
<1> USE CoordinatorAssumption DEF CoordinatorInv, CoordinatorTypeOK, Content
<1>1. CASE Loading = {}
  <2>1. \A c \in Caller : pc[c] = "store" /\ op[c] = "loadconfig" => bytes[c] \notin Conf
    BY <1>1 DEF Loading
  <2>2. config = latest
    BY <2>1 DEF HeldInv
  <2>3. QED
    BY <1>1, <2>2 DEF confOf
<1>2. CASE Loading # {}
  <2>1. (CHOOSE c \in Loading : TRUE) \in Loading
    BY <1>2
  <2>2. \A c \in Loading : bytes[c] = latest
    BY DEF Loading, HeldInv
  <2>3. QED
    BY <1>2, <2>1, <2>2 DEF confOf
<1>3. QED
  BY <1>1, <1>2

\* So it is before and after a step.
LEMMA ConfOfStep ==
  (CoordinatorInv => confOf = latest) /\ (CoordinatorInv' => confOf' = latest')
<1>1. (CoordinatorInv => confOf = latest)'
  BY ConfIsLatest, PTL
<1>2. QED
  BY <1>1, ConfIsLatest

\* The coordinator starts as it promises.
LEMMA PromiseInit == Init => Promise!Init
<1> SUFFICES ASSUME Init PROVE Promise!Init
  OBVIOUS
<1>1. Loading = {} /\ confOf = NoConf
  BY DEF Init, Loading, confOf
<1>2. outcomes = [c \in Caller |-> "none"] /\ stretches = [c \in Caller |-> 0]
  BY DEF Init, outcomes, outcomeOf, Returned, stretches
<1>3. QED
  BY <1>1, <1>2 DEF Init, Promise!Init, Content

\* A call of which nothing moves has the same outcome, and ranges over the same stretch.
LEMMA CallFrame ==
  ASSUME CoordinatorTypeOK, CoordinatorTypeOK', NEW d \in Caller,
         pc'[d] = pc[d], op'[d] = op[d], bytes'[d] = bytes[d]
  PROVE  outcomeOf(d)' = outcomeOf(d)
BY DEF outcomeOf, Returned

\* What the mapping makes of a step that changes the program counter of one call
LEMMA CallStep ==
  ASSUME CoordinatorTypeOK, CoordinatorTypeOK', NEW c \in Caller,
         \A d \in Caller \ {c} : pc'[d] = pc[d] /\ op'[d] = op[d] /\ bytes'[d] = bytes[d],
         \A d \in Caller \ {c} : seen'[d] = seen[d]
  PROVE  /\ outcomes' = [outcomes EXCEPT ![c] = outcomeOf(c)']
         /\ stretches' = [stretches EXCEPT ![c] = stretches'[c]]
<1>1. \A d \in Caller \ {c} : outcomeOf(d)' = outcomeOf(d)
  BY CallFrame
<1>2. QED
  BY <1>1 DEF outcomes, stretches

\* The outcome and the stretch of a call, from where it is
LEMMA CallAt ==
  ASSUME NEW c \in Caller
  PROVE  /\ outcomes[c] = outcomeOf(c)
         /\ Returned(c) => outcomeOf(c) = pc[c]
         /\ pc[c] \in PCs /\ ~Returned(c) /\ (pc[c] # "store" \/ op[c] # "loadconfig")
              => outcomeOf(c) = "none"
         /\ pc[c] = "store" /\ op[c] = "loadconfig"
              => outcomeOf(c) = Promise!Result(bytes[c])
         /\ stretches[c] = IF op[c] = "Notify" THEN Len(seen[c]) ELSE 0
BY DEF outcomes, outcomeOf, stretches, Returned, Promise!Result, PCs
\* Calls that begin, and the file that changes, are that.
LEMMA PromiseBegin ==
  ASSUME CoordinatorInv, CoordinatorInv',
         Edit \/ UNCHANGED vars \/ \E c \in Caller : Begin(c)
  PROVE  [Promise!Next]_(Promise!vars)
<1> USE DEF CoordinatorInv
<1>1. confOf = latest /\ confOf' = latest'
  BY ConfOfStep
<1>2. CASE Edit \/ UNCHANGED vars
  <2>1. UNCHANGED <<subscribers, callVars, latest>>
    BY <1>2 DEF Edit, vars
  <2>2. outcomes' = outcomes /\ stretches' = stretches
    BY <2>1 DEF callVars, outcomes, outcomeOf, Returned, stretches
  <2>3. file' \in Conf \cup {Missing, Bad}
    BY DEF CoordinatorTypeOK, Content
  <2>4. Promise!Edit
    BY <1>1, <2>1, <2>2, <2>3 DEF callVars, Promise!Edit
  <2>5. QED
    BY <2>4 DEF Promise!Next
<1>3. ASSUME NEW c \in Caller, Begin(c) PROVE [Promise!Next]_(Promise!vars)
  <2>1. PICK what \in {"Subscribe", "Notify", "Reload", "loadconfig"} :
          /\ pc[c] = "idle" /\ op[c] = "none"
          /\ op' = [op EXCEPT ![c] = what]
          /\ pc' = [pc EXCEPT ![c] = IF what = "Notify" THEN "range" ELSE "lock"]
          /\ seen' = IF what = "Notify" THEN [seen EXCEPT ![c] = subscribers] ELSE seen
          /\ \/ UNCHANGED wild
             \/ what = "Notify" /\ Torn /\ wild' = [wild EXCEPT ![c] = TRUE]
          /\ UNCHANGED <<subscribers, file, bytes, told, latest>>
    <3>1. ASSUME Notify(c)
          PROVE  UNCHANGED wild \/ (Torn /\ wild' = [wild EXCEPT ![c] = TRUE])
      <4>1. PICK beyond \in BOOLEAN : (beyond => Torn) /\ wild' = [wild EXCEPT ![c] = beyond]
        BY <3>1 DEF Notify
      <4>2. CASE beyond = FALSE
        BY <3>1, <4>1, <4>2 DEF Notify, CallInv, CoordinatorTypeOK
      <4>3. CASE beyond = TRUE
        BY <4>1, <4>3
      <4>4. QED
        BY <4>2, <4>3
    <3>2. CASE Notify(c)
      BY <3>1, <3>2 DEF Notify, CallInv
    <3>3. CASE \E what \in Ops : Call(c, what)
      BY <3>3 DEF Call, CallInv
    <3>4. QED
      BY <1>3, <3>2, <3>3 DEF Begin
  <2>2. /\ outcomes' = [outcomes EXCEPT ![c] = outcomeOf(c)']
        /\ stretches' = [stretches EXCEPT ![c] = stretches'[c]]
    <3>1. \A d \in Caller \ {c} : pc'[d] = pc[d] /\ op'[d] = op[d] /\ bytes'[d] = bytes[d] /\ seen'[d] = seen[d]
      BY <2>1 DEF CoordinatorTypeOK
    <3>2. QED
      BY <3>1, CallStep
  <2>3. outcomes[c] = "none" /\ outcomeOf(c)' = "none"
    BY <2>1 DEF outcomes, outcomeOf, Returned, CoordinatorTypeOK
  <2>4. outcomes' = outcomes
    BY <2>2, <2>3 DEF outcomes
  <2>5. stretches'[c] = IF what = "Notify" THEN Len(subscribers) ELSE 0
    BY <2>1 DEF stretches, CoordinatorTypeOK
  <2>6. Torn => \E s \in Caller : Promise!Running(s, "Subscribe")
    BY DEF Torn, HeldInv, Promise!Running, outcomes, outcomeOf, Returned
  <2>7. \/ UNCHANGED wild
        \/ /\ what = "Notify" /\ \E s \in Caller : Promise!Running(s, "Subscribe")
           /\ wild' = [wild EXCEPT ![c] = TRUE]
    BY <2>1, <2>6
  <2>8. Promise!Begin(c, what)
    BY <1>1, <2>1, <2>2, <2>4, <2>5, <2>7 DEF Promise!Begin
  <2>9. QED
    BY <2>8 DEF Promise!Next
<1>4. QED
  BY <1>2, <1>3

\* Taking the mutex, reading the list and storing the configuration are nothing.
LEMMA PromiseStutters ==
  ASSUME CoordinatorInv, CoordinatorInv', NEW c \in Caller,
         Lock(c) \/ ReadSubscribers(c) \/ StoreLength(c) \/ Loaded(c)
  PROVE  UNCHANGED Promise!vars
<1> USE DEF CoordinatorInv
<1>1. confOf = latest /\ confOf' = latest'
  BY ConfOfStep
<1>2. UNCHANGED <<subscribers, file, op, bytes, told, wild, latest>>
  BY DEF Lock, ReadSubscribers, StoreLength, Loaded
<1>3. op[c] # "Notify" /\ \A d \in Caller \ {c} : pc'[d] = pc[d] /\ seen'[d] = seen[d]
  BY DEF CallInv, HeldInv, Lock, ReadSubscribers, StoreLength, Loaded, Unlock, CoordinatorTypeOK
<1>4. /\ outcomes' = [outcomes EXCEPT ![c] = outcomeOf(c)']
      /\ stretches' = [stretches EXCEPT ![c] = stretches'[c]]
  BY <1>2, <1>3, CallStep
<1>5. outcomeOf(c)' = outcomeOf(c)
  <2>1. CASE Lock(c) \/ ReadSubscribers(c)
    BY <1>2, <2>1 DEF CallInv, Lock, ReadSubscribers, outcomeOf, Returned, CoordinatorTypeOK
  <2>2. CASE Loaded(c)
    BY <1>2, <2>2 DEF Loaded, Unlock, outcomeOf, Returned, CoordinatorTypeOK
  <2>3. CASE StoreLength(c)
    BY <1>2, <2>3 DEF StoreLength, outcomeOf, Returned, CoordinatorTypeOK
  <2>4. QED
    BY <2>1, <2>2, <2>3
<1>6. outcomes' = outcomes
  BY <1>4, <1>5 DEF outcomes
<1>7. stretches' = stretches
  BY <1>2, <1>3, <1>4 DEF stretches
<1>8. QED
  BY <1>1, <1>2, <1>6, <1>7 DEF Promise!vars

\* The list is extended where it is stored, and the file loaded where it is read.
LEMMA PromiseHappens ==
  ASSUME CoordinatorInv, CoordinatorInv', NEW c \in Caller
  PROVE  /\ StoreSubscribers(c) => Promise!Subscribe(c)
         /\ ReadFile(c) => Promise!Load(c)
<1> USE DEF CoordinatorInv
<1>1. confOf = latest /\ confOf' = latest'
  BY ConfOfStep
<1>2. ASSUME StoreSubscribers(c) PROVE Promise!Subscribe(c)
  <2>1. /\ pc[c] = "storing" /\ op[c] = "Subscribe" /\ seen[c] = subscribers
        /\ pc' = [pc EXCEPT ![c] = "ok"]
        /\ subscribers' = subscribers \o Ss[c]
        /\ UNCHANGED <<config, file, op, seen, bytes, told, wild, latest>>
    BY <1>2 DEF StoreSubscribers, Unlock, HeldInv
  <2>2. \A d \in Caller \ {c} : pc'[d] = pc[d]
    BY <2>1 DEF CoordinatorTypeOK
  <2>3. outcomes' = [outcomes EXCEPT ![c] = outcomeOf(c)']
    BY <2>1, <2>2, CallStep
  <2>4. outcomes[c] = "none" /\ outcomeOf(c)' = "ok"
    BY <2>1 DEF outcomes, outcomeOf, Returned, CoordinatorTypeOK
  <2>5. stretches' = stretches
    BY <2>1 DEF stretches
  <2>6. QED
    BY <1>1, <2>1, <2>3, <2>4, <2>5 DEF Promise!Subscribe, Promise!Running, Promise!Ends
<1>3. ASSUME ReadFile(c) PROVE Promise!Load(c)
  <2>1. /\ pc[c] = "hold" /\ op[c] = "loadconfig"
        /\ pc' = [pc EXCEPT ![c] = "store"]
        /\ bytes' = [bytes EXCEPT ![c] = file]
        /\ latest' = IF file \in Conf THEN file ELSE latest
        /\ UNCHANGED <<subscribers, config, file, op, seen, told, wild>>
    BY <1>3 DEF ReadFile
  <2>2. \A d \in Caller \ {c} : pc'[d] = pc[d] /\ bytes'[d] = bytes[d]
    BY <2>1 DEF CoordinatorTypeOK
  <2>3. outcomes' = [outcomes EXCEPT ![c] = outcomeOf(c)']
    BY <2>1, <2>2, CallStep
  <2>4. outcomes[c] = "none" /\ outcomeOf(c)' = Promise!Result(file)
    BY <2>1 DEF outcomes, outcomeOf, Returned, CoordinatorTypeOK, Promise!Result
  <2>5. stretches' = stretches
    BY <2>1 DEF stretches
  <2>6. QED
    BY <1>1, <2>1, <2>3, <2>4, <2>5 DEF Promise!Load, Promise!Running, Promise!Ends
<1>4. QED
  BY <1>2, <1>3

\* A Notify calls the next of its stretch of the list, or has called them all.
LEMMA PromiseTells ==
  ASSUME CoordinatorInv, CoordinatorInv', NEW c \in Caller
  PROVE  /\ \A err \in BOOLEAN : Tell(c, err) => Promise!Tell(c, err)
         /\ AllTold(c) \/ TellBeyond(c) => Promise!AllTold(c)
<1> USE DEF CoordinatorInv
<1>1. confOf = latest /\ confOf' = latest'
  BY ConfOfStep
<1>2. ASSUME pc[c] = "range"
      PROVE  /\ op[c] = "Notify" /\ outcomes[c] = "none"
             /\ stretches[c] = Len(seen[c]) /\ next[c] = Len(told[c]) + 1
             /\ Len(seen[c]) \in Nat /\ Len(told[c]) \in Nat
             /\ \A i \in 1..Len(seen[c]) : seen[c][i] = subscribers[i]
             /\ Len(told[c]) <= Len(seen[c])
  <2>1. op[c] = "Notify"
    BY <1>2 DEF CallInv
  <2>2. outcomes[c] = "none" /\ stretches[c] = Len(seen[c])
    BY <1>2, <2>1 DEF outcomes, outcomeOf, Returned, stretches
  <2>3. Len(seen[c]) \in Nat /\ Len(told[c]) \in Nat
    BY SeqDomain DEF CoordinatorTypeOK
  <2>4. QED
    BY <1>2, <2>1, <2>2, <2>3 DEF TellInv
<1>3. ASSUME UNCHANGED <<subscribers, config, file, op, seen, bytes, latest>>,
             NEW pcc \in {"range", "ok", "error", "panic"}, pc[c] = "range",
             pc' = [pc EXCEPT ![c] = pcc]
      PROVE  /\ UNCHANGED <<subscribers, confOf, file, op, stretches>>
             /\ outcomes' = [outcomes EXCEPT ![c] = IF pcc = "range" THEN "none" ELSE pcc]
  <2>1. stretches' = stretches
    BY <1>3 DEF stretches
  <2>2. \A d \in Caller \ {c} : pc'[d] = pc[d]
    BY <1>3 DEF CoordinatorTypeOK
  <2>3. outcomes' = [outcomes EXCEPT ![c] = outcomeOf(c)']
    BY <1>3, <2>2, CallStep
  <2>4. outcomeOf(c)' = IF pcc = "range" THEN "none" ELSE pcc
    BY <1>3 DEF outcomeOf, Returned, CoordinatorTypeOK
  <2>5. QED
    BY <1>1, <1>3, <2>1, <2>3, <2>4
<1>4. ASSUME NEW err \in BOOLEAN, Tell(c, err) PROVE Promise!Tell(c, err)
  <2>1. /\ pc[c] = "range" /\ next[c] <= Len(seen[c])
        /\ told' = [told EXCEPT ![c] = Append(told[c], seen[c][next[c]])]
        /\ pc' = [pc EXCEPT ![c] = IF err THEN "error" ELSE "range"]
        /\ UNCHANGED <<subscribers, config, file, op, seen, bytes, wild, latest>>
    BY <1>4 DEF Tell, Calls
  <2>2. /\ UNCHANGED <<subscribers, confOf, file, op, stretches>>
        /\ outcomes' = [outcomes EXCEPT ![c] = IF err THEN "error" ELSE "none"]
    BY <1>3, <2>1
  <2>3. Len(told[c]) < stretches[c] /\ seen[c][next[c]] = subscribers[Len(told[c]) + 1]
    BY <1>2, <2>1
  <2>4. told' = [told EXCEPT ![c] = Append(told[c], subscribers[Len(told[c]) + 1])]
    BY <2>1, <2>3
  <2>5. QED
    BY <1>2, <2>1, <2>2, <2>3, <2>4 DEF Promise!Tell, Promise!Running, Promise!Ends
<1>5. ASSUME AllTold(c) \/ TellBeyond(c) PROVE Promise!AllTold(c)
  <2>1. /\ pc[c] = "range" /\ next[c] > Len(seen[c])
        /\ pc' = [pc EXCEPT ![c] = IF wild[c] THEN "panic" ELSE "ok"]
        /\ UNCHANGED <<subscribers, config, file, op, seen, bytes, told, wild, latest>>
    BY <1>5 DEF AllTold, TellBeyond
  <2>2. /\ UNCHANGED <<subscribers, confOf, file, op, stretches>>
        /\ outcomes' = [outcomes EXCEPT ![c] = IF wild[c] THEN "panic" ELSE "ok"]
    BY <1>3, <2>1
  <2>3. Len(told[c]) = stretches[c]
    BY <1>2, <2>1
  <2>4. QED
    BY <1>2, <2>1, <2>2, <2>3 DEF Promise!AllTold, Promise!Running, Promise!Ends
<1>6. QED
  BY <1>4, <1>5

\* Every step of the coordinator is a step of the promise, or none.
LEMMA PromiseStep ==
  ASSUME CoordinatorInv, CoordinatorInv', [Next]_vars
  PROVE  [Promise!Next]_(Promise!vars)
<1>1. CASE Edit \/ UNCHANGED vars \/ \E c \in Caller : Begin(c)
  BY <1>1, PromiseBegin
<1>2. ASSUME NEW c \in Caller, Lock(c) \/ Progress(c)
      PROVE  [Promise!Next]_(Promise!vars)
  BY <1>2, PromiseStutters, PromiseHappens, PromiseTells DEF Progress, Promise!Next
<1>3. QED
  BY <1>1, <1>2 DEF Next

\* For any number of concurrent calls, the coordinator is linearizable: what its calls
\* do and return is what they would if each happened at one moment.
THEOREM CoordinatorLinearizable == Spec => KeepsCoordinatorPromise
<1>1. CoordinatorInv /\ CoordinatorInv' /\ [Next]_vars => [Promise!Next]_(Promise!vars)
  BY PromiseStep
<1>2. QED
  BY <1>1, PromiseInit, CoordinatorInductive, PTL DEF Spec, KeepsCoordinatorPromise, Promise!Spec
=============================================================================
