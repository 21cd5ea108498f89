-------------------------- MODULE SupervisionProofs --------------------------
(***************************************************************************)
(* Daemon implements Supervision, for every value of the constants: the    *)
(* initial state maps to the initial state, and under the inductive        *)
(* invariant IInv every step maps to a step of Supervision or to a         *)
(* stuttering step.                                                        *)
(***************************************************************************)
EXTENDS DaemonImplements, DaemonProofs

USE DEF fieldVars, dcmdVars, runVars, waitVars, restVars, envVars, histVars

\* What the refinement mapping gives to st, over and credit.
States  == [d \in DCmd |-> stOf(d)]
Over    == {d \in DCmd : GenOf[d] \in cancelled}
Credits == [d \in DCmd |-> limiter[d].count]

-----------------------------------------------------------------------------
(* The mapping.                                                            *)

\* A command whose startAndWait goroutine has not reported it is where that goroutine is.
LEMMA WithWaiter ==
  ASSUME NEW d \in DCmd, ended[d] = "no"
  PROVE  /\ wpc[d] = "start" => stOf(d) = "starting"
         /\ wpc[d] \in {"started", "wait", "report"} =>
              stOf(d) = IF live[d] > 0 THEN "up" ELSE "exited"
BY DEF stOf, Unborn

\* Any other command is new or waits.
LEMMA WithoutWaiter ==
  ASSUME NEW d \in DCmd, ended[d] = "no", wpc[d] \in {"idle", "send"}
  PROVE  stOf(d) = IF Unborn(d) THEN "new" ELSE "waiting"
BY DEF stOf, Unborn

\* A command that somebody holds is born and not given up on.
LEMMA Held ==
  ASSUME IInv, NEW d \in DCmd, Supervised(d) \/ \E g \in Gen : InQueue(d, g)
  PROVE  ~Unborn(d) /\ ended[d] = "no"
<1>1. GenOf[d] \in Gen
  BY DaemonAssumption
<1>2. QED
  BY <1>1 DEF IInv, UnbornInv, HandsInv, Supervised

\* A command that is with a restart goroutine or in a channel waits.
LEMMA Waiting ==
  ASSUME IInv, NEW d \in DCmd, rpc[d] # "idle" \/ \E g \in Gen : InQueue(d, g)
  PROVE  stOf(d) = "waiting"
<1>1. ~Unborn(d) /\ ended[d] = "no"
  BY Held DEF Supervised
<1>2. wpc[d] = "idle"
  BY DEF IInv, OneSupervisor
<1>3. QED
  BY <1>1, <1>2, WithoutWaiter

\* The state of a command depends on its goroutine, its process and whether it is born.
LEMMA SameState ==
  ASSUME NEW d \in DCmd, wpc'[d] = wpc[d], ended'[d] = ended[d],
         live'[d] > 0 <=> live[d] > 0, Unborn(d)' <=> Unborn(d)
  PROVE  stOf(d)' = stOf(d)
BY DEF stOf, Unborn

\* A step of one command's goroutines leaves the state of the others alone.
LEMMA OneMoves ==
  ASSUME NEW d \in DCmd, UNCHANGED <<phase, gen>>,
         \A e \in DCmd \ {d} :
           wpc'[e] = wpc[e] /\ ended'[e] = ended[e] /\ live'[e] = live[e]
  PROVE  States' = [States EXCEPT ![d] = stOf(d)']
<1>1. \A e \in DCmd \ {d} : stOf(e)' = stOf(e)
  BY SameState DEF Unborn
<1>2. QED
  BY <1>1 DEF States

\* A step that touches no goroutine of a command, and no limiter, is a stuttering step.
LEMMA NothingMoves ==
  ASSUME UNCHANGED <<wpc, ended, live, cancelled, limiter>>,
         \A d \in DCmd : Unborn(d)' <=> Unborn(d)
  PROVE  UNCHANGED Promise!supVars
<1>1. \A d \in DCmd : stOf(d)' = stOf(d)
  BY SameState
<1>2. QED
  BY <1>1 DEF Promise!supVars

\* A step of one command from one state to another is a Move of Supervision.
LEMMA MoveOf ==
  ASSUME NEW d \in DCmd, UNCHANGED <<phase, gen>>,
         \A e \in DCmd \ {d} :
           wpc'[e] = wpc[e] /\ ended'[e] = ended[e] /\ live'[e] = live[e]
  PROVE  /\ Promise!Move(d, stOf(d), stOf(d)')
         /\ stOf(d)' = stOf(d) => UNCHANGED States
<1>1. States' = [States EXCEPT ![d] = stOf(d)']
  BY OneMoves
<1>2. QED
  BY <1>1 DEF Promise!Move, States

-----------------------------------------------------------------------------
(* The calls of package main.                                              *)

\* NewDaemon: every command is new, none is cancelled and no credit is used.
LEMMA PromiseInit == Init => Promise!SupInit
<1> SUFFICES ASSUME Init PROVE Promise!SupInit
  OBVIOUS
<1>1. \A d \in DCmd : stOf(d) = "new"
  <2> SUFFICES ASSUME NEW d \in DCmd PROVE stOf(d) = "new"
    OBVIOUS
  <2>1. Unborn(d)
    BY DaemonAssumption DEF Init, Unborn, Gen
  <2>2. QED
    BY <2>1, WithoutWaiter DEF Init
<1>2. \A d \in DCmd : limiter[d].count = 0
  BY DEF Init, NewLimiter
<1>3. QED
  BY <1>1, <1>2 DEF Init, Promise!SupInit

\* Run launches the commands of the current generation.
LEMMA RunLaunches ==
  ASSUME IInv, Run
  PROVE  Promise!Launch(dcmds)
<1>1. /\ phase = "built" /\ phase' = "running" /\ gen' = gen /\ gen \in Nat
      /\ dcmds = NewDCmds(gen) /\ cancelled = 1..(gen - 1)
      /\ wpc' = [d \in DCmd |-> IF d \in dcmds THEN "start" ELSE wpc[d]]
      /\ UNCHANGED <<ended, live, cancelled, limiter>>
  BY DEF IInv, TypeOK, Gen, GenerationsInv, Run
<1>2. ASSUME NEW d \in dcmds
      PROVE  d \in DCmd /\ stOf(d) = "new" /\ GenOf[d] \notin cancelled /\ stOf(d)' = "starting"
  <2>1. d \in DCmd /\ GenOf[d] = gen /\ Unborn(d)
    BY <1>1, <1>2 DEF NewDCmds, Unborn
  <2>2. wpc[d] = "idle" /\ ended[d] = "no"
    BY <2>1 DEF IInv, UnbornInv
  <2>3. stOf(d) = "new"
    BY <2>1, <2>2, WithoutWaiter
  <2>4. wpc'[d] = "start" /\ ended'[d] = "no"
    BY <1>1, <1>2, <2>1, <2>2
  <2>5. stOf(d)' = "starting"
    BY <2>4 DEF stOf, Unborn
  <2>6. QED
    BY <1>1, <2>1, <2>3, <2>5
<1>3. ASSUME NEW d \in DCmd, d \notin dcmds PROVE stOf(d)' = stOf(d)
  <2>1. GenOf[d] # gen
    BY <1>1, <1>3 DEF NewDCmds
  <2>2. Unborn(d)' <=> Unborn(d)
    BY <1>1, <2>1 DEF Unborn
  <2>3. QED
    BY <1>1, <1>3, <2>2, SameState
<1>4. QED
  BY <1>1, <1>2, <1>3 DEF Promise!Launch

\* cancel cancels the commands of the current generation; the restart goroutines that
\* leave their select give up on theirs.
LEMMA CancelCancels ==
  ASSUME IInv, Cancel, NEW S \in SUBSET DCmd, S = NewDCmds(gen)
  PROVE  Promise!CancelAll(S)
<1> DEFINE left == {d \in DCmd : rpc[d] = "parked" /\ ron[d] = gen}
<1>1. /\ phase = "running" /\ phase' = "cancelled" /\ gen' = gen
      /\ cancelled' = cancelled \cup {gen}
      /\ ended' = [d \in DCmd |-> IF d \in left THEN "cancelled" ELSE ended[d]]
      /\ UNCHANGED <<wpc, live, limiter>>
  BY DEF Cancel
<1>2. Over' = Over \cup S
  BY <1>1 DEF Over, NewDCmds
<1>3. ASSUME NEW d \in left PROVE stOf(d) = "waiting" /\ stOf(d)' = "gone" /\ d \in Over'
  <2>1. stOf(d) = "waiting"
    BY Waiting
  <2>2. ended'[d] = "cancelled"
    BY <1>1
  <2>3. stOf(d)' = "gone"
    BY <2>2 DEF stOf, Unborn
  <2>4. GenOf[d] \in cancelled'
    BY <1>1, Held, OldOrCurrent DEF Supervised
  <2>5. QED
    BY <2>1, <2>3, <2>4 DEF Over
<1>4. ASSUME NEW d \in DCmd, d \notin left PROVE stOf(d)' = stOf(d)
  <2>1. Unborn(d)' <=> Unborn(d)
    BY <1>1 DEF Unborn
  <2>2. ended'[d] = ended[d]
    BY <1>1, <1>4
  <2>3. QED
    BY <1>1, <2>1, <2>2, SameState
<1>5. left \in SUBSET Over'
  BY <1>3
<1> HIDE DEF left
<1>6. QED
  BY <1>1, <1>2, <1>3, <1>4, <1>5 DEF Promise!CancelAll, Over

\* The first half of Reload gives up on the commands it drains from the channel.
LEMMA ReloadCloseCancels ==
  ASSUME IInv, ReloadClose
  PROVE  Promise!CancelAll({})
<1> DEFINE drained == {d \in DCmd : InQueue(d, gen)}
<1>1. /\ phase = "cancelled" /\ phase' = "closed" /\ gen' = gen /\ gen \in Gen
      /\ gen \in cancelled
      /\ ended' = [d \in DCmd |-> IF d \in drained THEN "cancelled" ELSE ended[d]]
      /\ UNCHANGED <<wpc, live, limiter, cancelled>>
  BY DEF IInv, TypeOK, GenerationsInv, InQueue, ReloadClose
<1>2. ASSUME NEW d \in drained PROVE stOf(d) = "waiting" /\ stOf(d)' = "gone" /\ d \in Over
  <2>1. stOf(d) = "waiting"
    BY <1>1, Waiting
  <2>2. ended'[d] = "cancelled"
    BY <1>1
  <2>3. stOf(d)' = "gone"
    BY <2>2 DEF stOf, Unborn
  <2>4. GenOf[d] = gen
    BY <1>1 DEF IInv, OwnChannel, InQueue
  <2>5. QED
    BY <1>1, <2>1, <2>3, <2>4 DEF Over
<1>3. ASSUME NEW d \in DCmd, d \notin drained PROVE stOf(d)' = stOf(d)
  <2>1. Unborn(d)' <=> Unborn(d)
    BY <1>1 DEF Unborn
  <2>2. ended'[d] = ended[d]
    BY <1>1, <1>3
  <2>3. QED
    BY <1>1, <2>1, <2>2, SameState
<1>4. drained \in SUBSET Over /\ Over' = Over
  BY <1>1, <1>2 DEF Over
<1> HIDE DEF drained
<1>5. QED
  BY <1>1, <1>2, <1>3, <1>4 DEF Promise!CancelAll, Over

\* The second half of Reload makes no command start, exit or stop waiting.
LEMMA ReloadSwapStutters ==
  ASSUME IInv, ReloadSwap
  PROVE  UNCHANGED Promise!supVars
<1>1. /\ phase = "closed" /\ phase' = "built" /\ gen' = gen + 1 /\ gen \in Nat
      /\ UNCHANGED <<wpc, ended, live, cancelled, limiter>>
  BY DEF IInv, TypeOK, Gen, ReloadSwap
<1>2. ASSUME NEW d \in DCmd PROVE Unborn(d)' <=> Unborn(d)
  <2>1. GenOf[d] \in Nat
    BY DaemonAssumption DEF Gen
  <2>2. QED
    BY <1>1, <2>1 DEF Unborn
<1>3. QED
  BY <1>1, <1>2, NothingMoves

\* The reset ticker gives the commands of one generation their credit back.
LEMMA ResetGivesCredit ==
  ASSUME IInv, NEW g \in Gen, resetLimiter(g), NEW S \in SUBSET DCmd, S = NewDCmds(g)
  PROVE  Promise!ResetCredit(S)
<1>1. /\ UNCHANGED <<wpc, ended, live, cancelled, phase, gen>>
      /\ limiter' = [d \in DCmd |-> IF d \in S THEN NewLimiter ELSE limiter[d]]
  BY DEF resetLimiter, NewDCmds
<1>2. \A d \in DCmd : stOf(d)' = stOf(d)
  BY <1>1, SameState DEF Unborn
<1>3. \A d \in DCmd : limiter'[d].count = IF d \in S THEN 0 ELSE limiter[d].count
  BY <1>1 DEF NewLimiter
<1>4. QED
  BY <1>1, <1>2, <1>3 DEF Promise!ResetCredit

-----------------------------------------------------------------------------
(* The goroutines of a command.                                            *)

\* The steps of startAndWait and of the process.
LEMMA WaiterMoves ==
  ASSUME IInv, NEW d \in DCmd, startAndWait(d) \/ ChildExit(d)
  PROVE  [Promise!SupNext]_(Promise!supVars)
<1>1. /\ wpc \in [DCmd -> WaitPCs] /\ live \in [DCmd -> Nat] /\ ended \in [DCmd -> EndReasons]
      /\ live[d] <= 1
      /\ live[d] = 1 => wpc[d] \in {"started", "wait"}
  BY DEF IInv, TypeOK, WaiterInv
<1>2. UNCHANGED <<phase, gen, cancelled, limiter>>
  BY DEF startAndWait, LogFails, StartFails, StartOK, SetRunning, WaitReturns, Report,
     SendToParked, SendToBuffer, SendOnClosed, ChildExit
<1>3. \A e \in DCmd \ {d} :
        wpc'[e] = wpc[e] /\ ended'[e] = ended[e] /\ live'[e] = live[e]
  BY <1>1 DEF startAndWait, LogFails, StartFails, StartOK, SetRunning, WaitReturns, Report,
     SendToParked, SendToBuffer, SendOnClosed, ChildExit
<1>4. Promise!Move(d, stOf(d), stOf(d)') /\ UNCHANGED <<Over, Credits>>
  BY <1>2, <1>3, MoveOf DEF Over, Credits
<1>5. stOf(d)' = stOf(d) => UNCHANGED Promise!supVars
  BY <1>2, <1>3, <1>4, MoveOf DEF Over, Credits, States, Promise!supVars
<1>6. wpc[d] # "idle" /\ ~Unborn(d) /\ ended[d] = "no"
  <2>1. ASSUME startAndWait(d) PROVE wpc[d] # "idle"
    BY <2>1 DEF startAndWait, LogFails, StartFails, StartOK, SetRunning, WaitReturns,
       Report, SendToParked, SendToBuffer, SendOnClosed
  <2>2. ASSUME ChildExit(d) PROVE wpc[d] # "idle"
    <3>1. live[d] \in Nat /\ live[d] > 0
      BY <1>1, <2>2 DEF ChildExit
    <3>2. live[d] = 1
      BY <1>1, <3>1
    <3>3. QED
      BY <1>1, <3>2
  <2>3. QED
    BY <2>1, <2>2, Held DEF Supervised
<1>7. ~Unborn(d)'
  BY <1>2, <1>6 DEF Unborn
<1>8. d \in Over <=> GenOf[d] \in cancelled
  BY DEF Over
<1>9. CASE LogFails(d)
  <2>1. stOf(d) = "starting"
    BY <1>6, <1>9, WithWaiter DEF LogFails
  <2>2. ended'[d] # "no"
    BY <1>1, <1>9 DEF LogFails
  <2>3. stOf(d)' = "gone"
    BY <2>2 DEF stOf, Unborn
  <2>4. Promise!NoLog(d)
    BY <1>4, <2>1, <2>3 DEF Promise!NoLog, Over, Credits
  <2>5. QED
    BY <2>4 DEF Promise!SupNext
<1>10. CASE StartFails(d)
  <2>1. stOf(d) = "starting" /\ live[d] = 0
    BY <1>1, <1>6, <1>10, WithWaiter DEF StartFails
  <2>2. wpc'[d] = "report" /\ ended'[d] = "no" /\ live'[d] = 0
    BY <1>1, <1>6, <1>10, <2>1 DEF StartFails
  <2>3. stOf(d)' = "exited"
    BY <2>2 DEF stOf, Unborn
  <2>4. Promise!FailStart(d)
    BY <1>4, <2>1, <2>3 DEF Promise!FailStart, Over, Credits
  <2>5. QED
    BY <2>4 DEF Promise!SupNext
<1>11. CASE StartOK(d)
  <2>1. stOf(d) = "starting" /\ live[d] = 0
    BY <1>1, <1>6, <1>11, WithWaiter DEF StartOK
  <2>2. wpc'[d] = "started" /\ ended'[d] = "no" /\ live'[d] = 1
    BY <1>1, <1>6, <1>11, <2>1 DEF StartOK
  <2>3. stOf(d)' = "up"
    BY <2>2 DEF stOf, Unborn
  <2>4. Promise!Start(d)
    BY <1>4, <2>1, <2>3 DEF Promise!Start, Over, Credits
  <2>5. QED
    BY <2>4 DEF Promise!SupNext
<1>12. CASE SetRunning(d) \/ WaitReturns(d)
  <2>1. /\ wpc[d] \in {"started", "wait"} /\ wpc'[d] \in {"wait", "report"}
        /\ ended'[d] = "no" /\ live'[d] = live[d]
    BY <1>1, <1>6, <1>12 DEF SetRunning, WaitReturns
  <2>2. stOf(d)' = stOf(d)
    BY <1>6, <2>1 DEF stOf, Unborn
  <2>3. QED
    BY <1>5, <2>2
<1>13. CASE Report(d) /\ GenOf[d] \in cancelled
  <2>1. stOf(d) = "exited"
    BY <1>1, <1>6, <1>13, WithWaiter DEF Report
  <2>2. ended'[d] # "no"
    BY <1>1, <1>13 DEF Report
  <2>3. stOf(d)' = "gone"
    BY <2>2 DEF stOf, Unborn
  <2>4. Promise!LastExit(d)
    BY <1>4, <1>8, <1>13, <2>1, <2>3 DEF Promise!LastExit, Over, Credits
  <2>5. QED
    BY <2>4 DEF Promise!SupNext
<1>14. CASE Report(d) /\ GenOf[d] \notin cancelled
  <2>1. stOf(d) = "exited"
    BY <1>1, <1>6, <1>14, WithWaiter DEF Report
  <2>2. wpc'[d] = "send" /\ ended'[d] = "no"
    BY <1>1, <1>6, <1>14 DEF Report
  <2>3. stOf(d)' = "waiting"
    BY <1>7, <2>2 DEF stOf, Unborn
  <2>4. Promise!ReportExit(d)
    BY <1>4, <1>8, <1>14, <2>1, <2>3 DEF Promise!ReportExit, Over, Credits
  <2>5. QED
    BY <2>4 DEF Promise!SupNext
<1>15. CASE SendToParked(d) \/ SendToBuffer(d) \/ SendOnClosed(d)
  <2>1. wpc[d] = "send" /\ wpc'[d] \in {"send", "idle"} /\ ended'[d] = "no"
    BY <1>1, <1>6, <1>15 DEF SendToParked, SendToBuffer, SendOnClosed
  <2>2. stOf(d) = "waiting"
    BY <1>6, <2>1, WithoutWaiter
  <2>3. stOf(d)' = "waiting"
    BY <1>7, <2>1 DEF stOf, Unborn
  <2>4. QED
    BY <1>5, <2>2, <2>3
<1>16. CASE ChildExit(d)
  <2>1. live[d] = 1 /\ wpc[d] \in {"started", "wait"}
    BY <1>1, <1>16 DEF ChildExit
  <2>2. stOf(d) = "up"
    BY <1>6, <2>1, WithWaiter
  <2>3. wpc'[d] = wpc[d] /\ ended'[d] = "no" /\ live'[d] = 0
    BY <1>1, <1>6, <1>16, <2>1 DEF ChildExit
  <2>4. stOf(d)' = "exited"
    BY <2>1, <2>3 DEF stOf, Unborn
  <2>5. Promise!ProcessEnds(d)
    BY <1>4, <2>2, <2>4 DEF Promise!ProcessEnds, Over, Credits
  <2>6. QED
    BY <2>5 DEF Promise!SupNext
<1>17. QED
  BY <1>9, <1>10, <1>11, <1>12, <1>13, <1>14, <1>15, <1>16 DEF startAndWait

\* The limiter refuses a restart only when the credit is used up: its other guard is
\* always true.
LEMMA RefusedAtLimit ==
  ASSUME NEW l \in LimiterState, NEW t \in Nat \ {ZeroTime}
  PROVE  /\ CanAdd(l, 1, t) => l.count < Limit /\ add(l, 1, t).count = l.count + 1
         /\ ~CanAdd(l, 1, t) => l.count = Limit /\ add(l, 1, t).count = l.count
<1>1. l.count \in 0..Limit /\ l.last \in Nat /\ Limit \in Nat
  BY LimiterAssumption DEF LimiterState
<1>2. l.last < NextStart(l, t)
  <2>1. 2^l.count \in Nat \ {0}
    BY <1>1, PowerAssumption
  <2>2. 2^l.count * Interval \in Nat \ {0}
    <3> DEFINE p == 2^l.count
    <3>1. p \in Nat \ {0} /\ Interval \in Nat \ {0}
      BY <2>1, LimiterAssumption
    <3> HIDE DEF p
    <3>2. p * Interval \in Nat \ {0}
      BY <3>1
    <3>3. QED
      BY <3>2 DEF p
  <2>3. QED
    BY <1>1, <2>2 DEF NextStart, ZeroTime
<1>3. QED
  BY <1>1, <1>2 DEF CanAdd, add

\* The steps of a restart goroutine.
LEMMA RestarterMoves ==
  ASSUME IInv, NEW d \in DCmd, Restarter(d)
  PROVE  [Promise!SupNext]_(Promise!supVars)
<1>1. /\ wpc \in [DCmd -> WaitPCs] /\ ended \in [DCmd -> EndReasons]
      /\ limiter \in [DCmd -> LimiterState] /\ now \in Nat \ {ZeroTime}
  BY DEF IInv, TypeOK
<1>2. UNCHANGED <<phase, gen, cancelled, live>>
  BY DEF Restarter, RestartCancelled, RestartDue, RestartPark, TimerFires, Restart
<1>3. \A e \in DCmd \ {d} : wpc'[e] = wpc[e] /\ ended'[e] = ended[e] /\ live'[e] = live[e]
  BY <1>1, <1>2 DEF Restarter, RestartCancelled, RestartDue, RestartPark, TimerFires, Restart
<1>4. Promise!Move(d, stOf(d), stOf(d)') /\ Over' = Over
  BY <1>2, <1>3, MoveOf DEF Over
<1>5. stOf(d) = "waiting" /\ ~Unborn(d) /\ ended[d] = "no"
  <2>1. rpc[d] # "idle"
    BY DEF Restarter, RestartCancelled, RestartDue, RestartPark, TimerFires, Restart
  <2>2. QED
    BY <2>1, Waiting, Held DEF Supervised
<1>6. CASE RestartCancelled(d)
  <2>1. ended'[d] # "no" /\ Credits' = Credits
    BY <1>1, <1>6 DEF RestartCancelled, Credits
  <2>2. stOf(d)' = "gone"
    BY <2>1 DEF stOf, Unborn
  <2>3. d \in Over'
    BY <1>2, <1>5, <1>6, OldOrCurrent DEF RestartCancelled, Over
  <2>4. States' = [c \in DCmd |-> IF c \in {d} THEN "gone" ELSE States[c]]
    BY <1>2, <1>3, <2>2, OneMoves DEF States
  <2>5. Promise!CancelAll({})
    <3>1. Over' = Over \cup {} /\ {d} \in SUBSET Over' /\ \A c \in {d} : States[c] = "waiting"
      BY <1>4, <1>5, <2>3 DEF States
    <3>2. QED
      BY <3>1, <2>1, <2>4 DEF Promise!CancelAll, Over, States, Credits
  <2>6. QED
    BY <2>5 DEF Promise!SupNext
<1>7. CASE RestartDue(d) \/ RestartPark(d) \/ TimerFires(d)
  <2>1. UNCHANGED <<wpc, ended, live, cancelled, limiter, phase, gen>>
    BY <1>7 DEF RestartDue, RestartPark, TimerFires
  <2>2. QED
    BY <2>1, NothingMoves DEF Unborn
<1>8. CASE Restart(d)
  <2>1. Credits' = [Credits EXCEPT ![d] = add(limiter[d], 1, now).count]
    BY <1>1, <1>8 DEF Restart, Credits
  <2>2. limiter[d] \in LimiterState
    BY <1>1
  <2>3. CASE CanAdd(limiter[d], 1, now)
    <3>1. wpc'[d] = "start" /\ ended'[d] = "no"
      BY <1>1, <1>5, <1>8, <2>3 DEF Restart
    <3>2. stOf(d)' = "starting"
      BY <3>1 DEF stOf, Unborn
    <3>3. /\ Credits[d] < Limit
          /\ Credits' = [Credits EXCEPT ![d] = Credits[d] + 1]
      BY <1>1, <2>1, <2>2, <2>3, RefusedAtLimit DEF Credits
    <3>4. Promise!StartAgain(d)
      BY <1>4, <1>5, <3>2, <3>3 DEF Promise!StartAgain, Over, Credits
    <3>5. QED
      BY <3>4 DEF Promise!SupNext
  <2>4. CASE ~CanAdd(limiter[d], 1, now)
    <3>1. ended'[d] # "no"
      BY <1>1, <1>8, <2>4 DEF Restart
    <3>2. stOf(d)' = "gone"
      BY <3>1 DEF stOf, Unborn
    <3>3. Credits[d] = Limit /\ Credits' = Credits
      BY <1>1, <2>1, <2>2, <2>4, RefusedAtLimit DEF Credits
    <3>4. Promise!LimitReached(d)
      BY <1>4, <1>5, <3>2, <3>3 DEF Promise!LimitReached, Over, Credits
    <3>5. QED
      BY <3>4 DEF Promise!SupNext
  <2>5. QED
    BY <2>3, <2>4
<1>9. QED
  BY <1>6, <1>7, <1>8 DEF Restarter

-----------------------------------------------------------------------------
(* The refinement.                                                         *)

\* Under IInv every step of Daemon is a step of Supervision or a stuttering step.
LEMMA PromiseStep ==
  IInv /\ [Next]_vars => [Promise!SupNext]_(Promise!supVars)
<1> SUFFICES ASSUME IInv, [Next]_vars
             PROVE  [Promise!SupNext]_(Promise!supVars)
  OBVIOUS
<1>1. dcmds \in SUBSET DCmd
  BY DEF IInv, TypeOK
<1>2. CASE Run
  BY <1>1, <1>2, RunLaunches DEF Promise!SupNext
<1>3. CASE Cancel
  <2>1. PICK S \in SUBSET DCmd : S = NewDCmds(gen)
    BY DEF NewDCmds
  <2>2. Promise!CancelAll(S)
    BY <1>3, <2>1, CancelCancels
  <2>3. QED
    BY <2>2 DEF Promise!SupNext
<1>4. CASE ReloadClose
  <2>1. {} \in SUBSET DCmd
    OBVIOUS
  <2>2. QED
    BY <1>4, <2>1, ReloadCloseCancels DEF Promise!SupNext
<1>5. CASE ReloadSwap
  BY <1>5, ReloadSwapStutters
<1>6. ASSUME NEW g \in Gen, resetLimiter(g) PROVE [Promise!SupNext]_(Promise!supVars)
  <2>1. PICK S \in SUBSET DCmd : S = NewDCmds(g)
    BY DEF NewDCmds
  <2>2. Promise!ResetCredit(S)
    BY <1>6, <2>1, ResetGivesCredit
  <2>3. QED
    BY <2>2 DEF Promise!SupNext
<1>7. CASE Tick \/ (\E g \in Gen : Consumer(g)) \/ UNCHANGED vars
  <2>1. UNCHANGED <<wpc, ended, live, cancelled, limiter, phase, gen>>
    BY <1>7 DEF Tick, Consumer, RunSelect, RunReturn, RunReceive, RunReceiveNil, RunPark, vars
  <2>2. QED
    BY <2>1, NothingMoves DEF Unborn
<1>8. CASE \E d \in DCmd : startAndWait(d) \/ Restarter(d) \/ ChildExit(d)
  BY <1>8, WaiterMoves, RestarterMoves
<1>9. QED
  BY <1>2, <1>3, <1>4, <1>5, <1>6, <1>7, <1>8 DEF Next, Caller

\* Package daemon implements Supervision.
THEOREM PromiseKept == Spec => KeepsPromise
BY PromiseInit, PromiseStep, Inductive, PTL DEF Spec, KeepsPromise, Promise!SupSpec

-----------------------------------------------------------------------------
(* The last life of a cancelled command.                                   *)

\* In Supervision a command that is over does not begin to wait.
LEMMA OverWaitsNoMore ==
  ASSUME [Promise!SupNext]_(Promise!supVars), NEW d \in Over
  PROVE  States'[d] = "waiting" => States[d] = "waiting"
<1> SUFFICES ASSUME States'[d] = "waiting", States[d] # "waiting" PROVE FALSE
  OBVIOUS
<1>1. d \in DCmd /\ DOMAIN States = DCmd
  BY DEF Over, States
<1>2. \A e \in DCmd : \A from, to : Promise!Move(e, from, to) => e = d /\ to = "waiting"
  BY <1>1 DEF Promise!Move, States
<1>3. ~\E S \in SUBSET DCmd : Promise!Launch(S) \/ Promise!CancelAll(S) \/ Promise!ResetCredit(S)
  BY <1>1 DEF Promise!Launch, Promise!CancelAll, Promise!ResetCredit, States
<1>4. ASSUME NEW e \in DCmd PROVE ~Promise!ReportExit(e)
  BY <1>2 DEF Promise!ReportExit, Over
<1>5. ASSUME NEW e \in DCmd
      PROVE  ~(\/ Promise!Start(e) \/ Promise!FailStart(e) \/ Promise!NoLog(e)
               \/ Promise!ProcessEnds(e) \/ Promise!LastExit(e) \/ Promise!StartAgain(e)
               \/ Promise!LimitReached(e))
  <2>1. /\ ~Promise!Move(e, "starting", "up") /\ ~Promise!Move(e, "starting", "exited")
        /\ ~Promise!Move(e, "starting", "gone") /\ ~Promise!Move(e, "up", "exited")
        /\ ~Promise!Move(e, "exited", "gone") /\ ~Promise!Move(e, "waiting", "starting")
        /\ ~Promise!Move(e, "waiting", "gone")
    BY <1>2
  <2>2. QED
    BY <2>1 DEF Promise!Start, Promise!FailStart, Promise!NoLog, Promise!ProcessEnds,
       Promise!LastExit, Promise!StartAgain, Promise!LimitReached
<1>6. ~UNCHANGED Promise!supVars
  BY DEF Promise!supVars, States
<1>7. QED
  BY <1>3, <1>4, <1>5, <1>6 DEF Promise!SupNext

\* A restart takes a command that waits.
LEMMA RestartsWaiting ==
  ASSUME IInv, [Next]_vars, NEW d \in DCmd, restarts'[d] # restarts[d]
  PROVE  /\ restarts[d] \in Nat /\ restarts'[d] = restarts[d] + 1
         /\ stOf(d) = "waiting" /\ stOf(d)' = "starting"
<1>1. PICK e \in DCmd : Restart(e)
  BY DEF Next, Caller, Run, Cancel, ReloadClose, ReloadSwap, resetLimiter, Tick, Consumer,
     RunSelect, RunReturn, RunReceive, RunReceiveNil, RunPark, startAndWait, LogFails, StartFails,
     StartOK, SetRunning, WaitReturns, Report, SendToParked, SendToBuffer, SendOnClosed,
     Restarter, RestartCancelled, RestartDue, RestartPark, TimerFires, ChildExit, vars
<1>2. /\ restarts \in [DCmd -> Nat] /\ wpc \in [DCmd -> WaitPCs] /\ ended \in [DCmd -> EndReasons]
  BY DEF IInv, TypeOK
<1>3. /\ rpc[e] = "due"
      /\ \/ restarts' = restarts
         \/ /\ restarts' = [restarts EXCEPT ![e] = restarts[e] + 1]
            /\ wpc' = [wpc EXCEPT ![e] = "start"] /\ ended' = ended
  BY <1>1 DEF Restart
<1>4. /\ d = e /\ restarts'[d] = restarts[d] + 1
      /\ wpc'[d] = "start" /\ ended'[d] = ended[d]
  BY <1>2, <1>3
<1>5. stOf(d) = "waiting"
  BY <1>3, <1>4, Waiting
<1>6. ended[d] = "no"
  BY <1>5 DEF stOf, Unborn
<1>7. stOf(d)' = "starting"
  BY <1>4, <1>6 DEF stOf, Unborn
<1>8. QED
  BY <1>2, <1>4, <1>5, <1>7

\* After a reload each of the old commands is started at most once more.
THEOREM LastLifeCorrect == Spec => LastLife
<1>1. ASSUME IInv, [Next]_vars
      PROVE  [\A d \in DCmd : GenOf[d] \in cancelled =>
                restarts'[d] + Waits(d)' <= restarts[d] + Waits(d)]_vars
  <2> SUFFICES ASSUME NEW d \in DCmd, GenOf[d] \in cancelled
               PROVE  restarts'[d] + Waits(d)' <= restarts[d] + Waits(d)
    OBVIOUS
  <2>1. restarts[d] \in Nat
    BY <1>1 DEF IInv, TypeOK
  <2>2. CASE restarts'[d] # restarts[d]
    <3>1. restarts'[d] = restarts[d] + 1 /\ stOf(d) = "waiting" /\ stOf(d)' = "starting"
      BY <1>1, <2>2, RestartsWaiting
    <3>2. Waits(d) = 1 /\ Waits(d)' = 0
      BY <3>1 DEF Waits
    <3>3. QED
      BY <2>1, <3>1, <3>2
  <2>3. CASE restarts'[d] = restarts[d]
    <3>1. d \in Over
      BY DEF Over
    <3>2. States'[d] = "waiting" => States[d] = "waiting"
      BY <1>1, <3>1, PromiseStep, OverWaitsNoMore
    <3>3. stOf(d)' = "waiting" => stOf(d) = "waiting"
      BY <3>2 DEF States
    <3>4. /\ Waits(d) \in {0, 1} /\ Waits(d)' \in {0, 1}
          /\ Waits(d)' = 1 => Waits(d) = 1
      BY <3>3 DEF Waits
    <3>5. QED
      BY <2>1, <2>3, <3>4
  <2>4. QED
    BY <2>2, <2>3
<1>2. QED
  BY <1>1, Inductive, PTL DEF Spec, LastLife
=============================================================================
