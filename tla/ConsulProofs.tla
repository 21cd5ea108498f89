---------------------------- MODULE ConsulProofs ----------------------------
(***************************************************************************)
(* Proofs of the safety properties of Consul, for any commands, services   *)
(* and numbers of failures.                                                *)
(***************************************************************************)
EXTENDS Consul, FiniteSetTheorems, TLAPS

USE DEF envVars, countVars

\* The counts of running and exited commands are between 0 and the number of commands.
LEMMA Counts ==
  /\ Cardinality(running) \in 0..Cardinality(Cmd)
  /\ Cardinality(exited) \in 0..Cardinality(Cmd)
<1>1. /\ IsFiniteSet(running) /\ Cardinality(running) <= Cardinality(Cmd)
      /\ IsFiniteSet(exited) /\ Cardinality(exited) <= Cardinality(Cmd)
  BY ConsulAssumption, FS_Subset DEF running, exited
<1>2. /\ Cardinality(running) \in Nat /\ Cardinality(exited) \in Nat
      /\ Cardinality(Cmd) \in Nat
  BY <1>1, ConsulAssumption, FS_CardinalityType
<1>3. QED
  BY <1>1, <1>2

\* A range loop that has one element less to visit.
LEMMA Visited ==
  ASSUME NEW S \in (SUBSET Cmd) \cup (SUBSET Service), NEW x
  PROVE  S \ {x} \in (SUBSET Cmd) \cup (SUBSET Service)
<1>1. CASE S \in SUBSET Cmd
  BY <1>1
<1>2. CASE S \in SUBSET Service
  BY <1>2
<1>3. QED
  BY <1>1, <1>2

\* The types hold at the start.
LEMMA ConsulTypeInit == ConsulInit => ConsulTypeOK
<1>1. Cardinality(Cmd) \in Nat
  BY ConsulAssumption, FS_CardinalityType
<1>2. QED
  BY <1>1, Counts, ConsulAssumption DEF ConsulInit, ConsulTypeOK, WatchPCs

\* Every step keeps the types.
LEMMA ConsulTypeStep == ConsulTypeOK /\ [ConsulNext]_vars => ConsulTypeOK'
<1> SUFFICES ASSUME ConsulTypeOK, [ConsulNext]_vars PROVE ConsulTypeOK'
  OBVIOUS
<1> USE ConsulAssumption DEF ConsulTypeOK, WatchPCs
<1>1. ASSUME NEW c \in Cmd, CmdStarts(c) \/ CmdListens(c) \/ CmdExits(c)
      PROVE  ConsulTypeOK'
  <2>1. /\ starts' \in 0..MaxStarts
        /\ UNCHANGED <<failures, ServiceList, catalog, pc, todo, svcList, errs, countVars,
                       unregistered>>
    BY <1>1 DEF CmdStarts, CmdListens, CmdExits
  <2>2. listens' \in [Cmd -> Service \cup {None, "exited"}]
    BY <1>1 DEF CmdStarts, CmdListens, CmdExits
  <2>3. QED
    BY <2>1, <2>2
<1>2. ASSUME NEW w \in Watcher, Watch(w) PROVE ConsulTypeOK'
  <2>1. UNCHANGED envVars
    BY <1>2 DEF Watch, MinuteTick, CompareExited, CountRunning, CountExited, QuarterTick,
       Check, Visit, LsofFails, RefuseList, StoreList, Deregister, Register, RequestOK,
       RequestFails, Return
  <2>2. CASE \/ w = "minute" /\ (MinuteTick \/ CompareExited)
             \/ w = "quarter" /\ QuarterTick
    <3>1. UNCHANGED <<failures, ServiceList, catalog, countVars, unregistered>>
      BY <2>2 DEF MinuteTick, CompareExited, QuarterTick
    <3>2. CASE RegisterAgain(w)
      BY <2>1, <3>1, <3>2 DEF RegisterAgain, Go
    <3>3. CASE Go(w, "compare") /\ UNCHANGED <<todo, svcList, errs>>
      BY <2>1, <3>1, <3>3 DEF Go
    <3>4. CASE Go(w, "tick") /\ UNCHANGED <<todo, svcList, errs>>
      BY <2>1, <3>1, <3>4 DEF Go
    <3>5. QED
      BY <2>2, <3>2, <3>3, <3>4 DEF MinuteTick, CompareExited, QuarterTick
  <2>3. CASE w = "minute" /\ (CountRunning \/ CountExited)
    <3>1. runningCount' \in 0..Cardinality(Cmd) /\ exitedCount' \in 0..Cardinality(Cmd)
      BY <2>3, Counts DEF CountRunning, CountExited
    <3>2. UNCHANGED <<failures, ServiceList, catalog, todo, unregistered>>
      BY <2>3 DEF CountRunning, CountExited
    <3>3. pc' \in [Watcher -> WatchPCs]
      BY <2>3 DEF CountRunning, CountExited, Leave, Go
    <3>4. svcList' \in [Watcher -> SUBSET Service] /\ errs' \in [Watcher -> BOOLEAN]
      BY <2>3 DEF CountRunning, CountExited, Leave
    <3>5. QED
      BY <2>1, <3>1, <3>2, <3>3, <3>4
  <2>4. ASSUME NEW c \in Cmd, Visit(w, c) PROVE ConsulTypeOK'
    <3>1. todo[w] \ {c} \in (SUBSET Cmd) \cup (SUBSET Service)
      BY Visited
    <3>2. todo' \in [Watcher -> (SUBSET Cmd) \cup (SUBSET Service)]
      BY <2>4, <3>1 DEF Visit
    <3>3. svcList' \in [Watcher -> SUBSET Service] /\ errs' \in [Watcher -> BOOLEAN]
      BY <2>4 DEF Visit
    <3>4. pc' \in [Watcher -> WatchPCs]
      BY <2>4 DEF Visit, Go
    <3>5. QED
      BY <2>1, <2>4, <3>2, <3>3, <3>4 DEF Visit
  <2>12. ASSUME NEW c \in Cmd, Check(w, c) PROVE ConsulTypeOK'
    <3>1. todo[w] \ {c} \in (SUBSET Cmd) \cup (SUBSET Service)
      BY Visited
    <3>2. todo' \in [Watcher -> (SUBSET Cmd) \cup (SUBSET Service)]
      BY <2>12, <3>1 DEF Check
    <3>3. pc' \in [Watcher -> WatchPCs]
      BY <2>12 DEF Check, Go
    <3>4. QED
      BY <2>1, <2>12, <3>2, <3>3 DEF Check
  <2>5. CASE LsofFails(w)
    <3>1. failures' \in 0..MaxFailures
      BY <2>5 DEF LsofFails
    <3>2. pc' \in [Watcher -> WatchPCs] /\ ServiceList' \in SUBSET Service
      BY <2>5 DEF LsofFails, Leave, Go
    <3>3. todo' \in [Watcher -> (SUBSET Cmd) \cup (SUBSET Service)]
      BY <2>5 DEF LsofFails
    <3>4. svcList' \in [Watcher -> SUBSET Service] /\ errs' \in [Watcher -> BOOLEAN]
      BY <2>5 DEF LsofFails, Leave
    <3>5. QED
      BY <2>1, <2>5, <3>1, <3>2, <3>3, <3>4 DEF LsofFails
  <2>6. CASE RefuseList(w) \/ StoreList(w) \/ Return(w)
    BY <2>1, <2>6 DEF RefuseList, StoreList, Return, Leave, Go
  <2>7. CASE Deregister(w) \/ Register(w)
    <3>1. ServiceList \in (SUBSET Cmd) \cup (SUBSET Service)
      OBVIOUS
    <3>2. todo' = [todo EXCEPT ![w] = ServiceList]
      BY <2>7 DEF Deregister, Register
    <3>3. todo' \in [Watcher -> (SUBSET Cmd) \cup (SUBSET Service)]
      BY <3>1, <3>2
    <3>4. QED
      BY <2>1, <2>7, <3>3 DEF Deregister, Register, Go
  <2>8. ASSUME NEW s \in Service, RequestOK(w, s) \/ RequestFails(w, s) PROVE ConsulTypeOK'
    <3>1. todo[w] \ {s} \in (SUBSET Cmd) \cup (SUBSET Service)
      BY Visited
    <3>2. todo' \in [Watcher -> (SUBSET Cmd) \cup (SUBSET Service)]
      BY <2>8, <3>1 DEF RequestOK, RequestFails
    <3>3. Applied(w, s) \in SUBSET Service
      BY DEF Applied
    <3>4. catalog' \in SUBSET Service
      BY <2>8, <3>3 DEF RequestOK, RequestFails
    <3>5. unregistered' \in SUBSET Service
      BY <2>8 DEF RequestOK, RequestFails
    <3>6. failures' \in 0..MaxFailures
      BY <2>8 DEF RequestOK, RequestFails
    <3>7. errs' \in [Watcher -> BOOLEAN]
      BY <2>8 DEF RequestOK, RequestFails
    <3>8. QED
      BY <2>1, <2>8, <3>2, <3>4, <3>5, <3>6, <3>7 DEF RequestOK, RequestFails
  <2>9. CASE \E c \in Cmd : Check(w, c) \/ Visit(w, c)
    BY <2>4, <2>9, <2>12
  <2>10. CASE \E s \in Service : RequestOK(w, s) \/ RequestFails(w, s)
    BY <2>8, <2>10
  <2>11. QED
    BY <1>2, <2>2, <2>3, <2>5, <2>6, <2>7, <2>9, <2>10 DEF Watch
<1>3. CASE UNCHANGED vars
  BY <1>3 DEF vars
<1>4. QED
  BY <1>1, <1>2, <1>3 DEF ConsulNext

\* Every step keeps ListInv.
LEMMA ListStep == ConsulTypeOK /\ ListInv /\ [ConsulNext]_vars => ListInv'
<1> SUFFICES ASSUME ConsulTypeOK, ListInv, [ConsulNext]_vars, NEW s \in ServiceList'
             PROVE  s \in (catalog \cup unregistered)' \/ \E w \in Watcher : WillRegister(w, s)'
  BY DEF ListInv
<1>1. /\ pc \in [Watcher -> WatchPCs]
      /\ todo \in [Watcher -> (SUBSET Cmd) \cup (SUBSET Service)]
  BY DEF ConsulTypeOK
<1>2. CASE UNCHANGED <<ServiceList, catalog, unregistered, pc, todo>>
  BY <1>2 DEF ListInv, WillRegister
<1>3. ASSUME NEW w \in Watcher,
             UNCHANGED <<ServiceList, catalog, unregistered>>,
             \A v \in Watcher \ {w} : pc'[v] = pc[v] /\ todo'[v] = todo[v],
             WillRegister(w, s) => WillRegister(w, s)'
      PROVE  s \in (catalog \cup unregistered)' \/ \E v \in Watcher : WillRegister(v, s)'
  BY <1>3 DEF ListInv, WillRegister
<1>4. ASSUME NEW w \in Watcher, Watch(w)
      PROVE  s \in (catalog \cup unregistered)' \/ \E v \in Watcher : WillRegister(v, s)'
  <2>1. CASE w = "minute" /\ (MinuteTick \/ CompareExited \/ CountRunning \/ CountExited)
    <3>1. ~WillRegister(w, s)
      BY <2>1 DEF MinuteTick, CompareExited, CountRunning, CountExited, WillRegister
    <3>2. /\ UNCHANGED <<ServiceList, catalog, unregistered>>
          /\ \A v \in Watcher \ {w} : pc'[v] = pc[v] /\ todo'[v] = todo[v]
      BY <1>1, <2>1 DEF MinuteTick, CompareExited, CountRunning, CountExited,
         RegisterAgain, Leave, Go
    <3>3. QED
      BY <1>3, <3>1, <3>2
  <2>2. CASE w = "quarter" /\ QuarterTick
    <3>1. ~WillRegister(w, s)
      BY <2>2 DEF QuarterTick, WillRegister
    <3>2. /\ UNCHANGED <<ServiceList, catalog, unregistered>>
          /\ \A v \in Watcher \ {w} : pc'[v] = pc[v] /\ todo'[v] = todo[v]
      BY <1>1, <2>2 DEF QuarterTick, RegisterAgain, Go
    <3>3. QED
      BY <1>3, <3>1, <3>2
  <2>3. CASE (\E c \in Cmd : Check(w, c) \/ Visit(w, c)) \/ RefuseList(w) \/ Return(w)
    <3>1. ~WillRegister(w, s)
      BY <2>3 DEF Check, Visit, RefuseList, Return, WillRegister
    <3>2. /\ UNCHANGED <<ServiceList, catalog, unregistered>>
          /\ \A v \in Watcher \ {w} : pc'[v] = pc[v] /\ todo'[v] = todo[v]
      BY <1>1, <2>3 DEF Check, Visit, RefuseList, Return, Leave, Go
    <3>3. QED
      BY <1>3, <3>1, <3>2
  <2>4. CASE LsofFails(w) /\ UNCHANGED ServiceList
    <3>1. ~WillRegister(w, s)
      BY <2>4 DEF LsofFails, WillRegister
    <3>2. /\ UNCHANGED <<ServiceList, catalog, unregistered>>
          /\ \A v \in Watcher \ {w} : pc'[v] = pc[v] /\ todo'[v] = todo[v]
      BY <1>1, <2>4 DEF LsofFails, Leave, Go
    <3>3. QED
      BY <1>3, <3>1, <3>2
  <2>5. CASE LsofFails(w) /\ ServiceList' = {}
    BY <2>5
  <2>6. CASE StoreList(w)
    BY <1>1, <2>6 DEF StoreList, Go, WillRegister
  <2>7. CASE Deregister(w) \/ Register(w)
    <3>1. WillRegister(w, s)'
      BY <1>1, <2>7 DEF Deregister, Register, Go, WillRegister
    <3>2. QED
      BY <3>1
  <2>8. ASSUME NEW r \in Service, RequestOK(w, r) \/ RequestFails(w, r)
        PROVE  s \in (catalog \cup unregistered)' \/ \E v \in Watcher : WillRegister(v, s)'
    <3>1. /\ ServiceList' = ServiceList /\ pc' = pc
          /\ pc[w] \in {"deregistering", "registering"}
          /\ todo' = [todo EXCEPT ![w] = todo[w] \ {r}]
      BY <2>8 DEF RequestOK, RequestFails
    <3>2. CASE pc[w] = "deregistering"
      BY <3>1, <3>2 DEF WillRegister
    <3>3. CASE pc[w] = "registering" /\ r = s
      BY <2>8, <3>3 DEF RequestOK, RequestFails, Applied
    <3>4. CASE pc[w] = "registering" /\ r # s
      <4>1. s \in catalog \cup unregistered => s \in (catalog \cup unregistered)'
        BY <2>8, <3>4 DEF RequestOK, RequestFails, Applied
      <4>2. \A v \in Watcher : WillRegister(v, s) => WillRegister(v, s)'
        BY <1>1, <3>1, <3>4 DEF WillRegister
      <4>3. QED
        BY <3>1, <4>1, <4>2 DEF ListInv
    <3>5. QED
      BY <3>1, <3>2, <3>3, <3>4
  <2>9. QED
    BY <1>4, <2>1, <2>2, <2>3, <2>4, <2>5, <2>6, <2>7, <2>8 DEF Watch, LsofFails
<1>5. ASSUME NEW c \in Cmd, CmdStarts(c) \/ CmdListens(c) \/ CmdExits(c)
      PROVE  UNCHANGED <<ServiceList, catalog, unregistered, pc, todo>>
  BY <1>5 DEF CmdStarts, CmdListens, CmdExits
<1>6. QED
  BY <1>2, <1>4, <1>5 DEF ConsulNext, vars

\* The types of the goroutines of Watch.
THEOREM ConsulTypes == ConsulSpec => []ConsulTypeOK
BY ConsulTypeInit, ConsulTypeStep, PTL DEF ConsulSpec

\* When neither goroutine of Watch is at work on the catalog, every service of the list
\* is registered, unless its registration has failed: the goroutines do not undo each
\* other's work for good.
THEOREM ListCorrect == ConsulSpec => []ListRegistered
<1>1. ConsulInit => ListInv
  BY DEF ConsulInit, ListInv
<1>2. ListInv => ListRegistered
  BY DEF ListInv, ListRegistered, WillRegister
<1>3. QED
  BY <1>1, <1>2, ListStep, ConsulTypes, PTL DEF ConsulSpec
=============================================================================
