----------------------------- MODULE DaemonInv ------------------------------
(***************************************************************************)
(* The inductive invariant of Daemon: what holds between any two steps of  *)
(* its goroutines, strong enough to imply every safety property of Daemon  *)
(* (module DaemonProofs).                                                  *)
(***************************************************************************)
EXTENDS Daemon

\* The generations that are over are exactly those before the current one, and the
\* current one between the caller's cancel and its Run.
GenerationsInv ==
  /\ cancelled = 1..(gen - 1) \cup (IF phase \in {"cancelled", "closed"} THEN {gen} ELSE {})
  /\ closed = 1..(gen - 1) \cup (IF phase = "closed" THEN {gen} ELSE {})
  /\ dcmds = IF phase = "closed" THEN {} ELSE NewDCmds(gen)

\* No goroutine has seen d yet.
Unborn(d) == GenOf[d] > gen \/ (GenOf[d] = gen /\ phase = "built")

UnbornInv ==
  \A d \in DCmd : Unborn(d) =>
    /\ wpc[d] = "idle"
    /\ rpc[d] = "idle"
    /\ \A g \in Gen : ~InQueue(d, g)
    /\ ended[d] = "no"

\* What the place of a startAndWait goroutine says about the process, the exec.Cmd,
\* Status and the channel it reports to.
WaiterInv ==
  \A d \in DCmd :
    /\ live[d] <= 1
    /\ live[d] = 1 => wpc[d] \in {"started", "wait"}
    /\ wpc[d] \in {"started", "wait"} => cmd[d] = "started"
    /\ status[d] = "Running" => wpc[d] = "wait"
    /\ wpc[d] # "idle" => wch[d] = GenOf[d] \/ GenOf[d] \in cancelled
    /\ wpc[d] = "send" => wch[d] = GenOf[d]

\* The limiter accounts for every restart, and a restart goroutine does not pass its
\* timer before the next start the limiter names.
LimiterInv ==
  \A d \in DCmd :
    /\ restarts[d] <= Limit * resets + limiter[d].count
    /\ rpc[d] = "parked" =>
         limiter[d].last = ZeroTime \/ NextStart(limiter[d], now) <= deadline[d]
    /\ rpc[d] = "due" =>
         limiter[d].last = ZeroTime \/ NextStart(limiter[d], now) <= now

\* A command given up on is in nobody's hands; one of a running generation is in
\* somebody's hands or given up on for a reason of its own.
HandsInv ==
  \A d \in DCmd :
    /\ ended[d] # "no" => wpc[d] = "idle" /\ rpc[d] = "idle" /\ \A g \in Gen : ~InQueue(d, g)
    /\ phase = "running" /\ GenOf[d] = gen =>
         Supervised(d) \/ ended[d] \in {"log file", "limit reached"}

\* A Run loop works on the fields of its own generation or a later one.
LoopInv ==
  \A g \in Gen :
    /\ npc[g] # "idle" => g <= gen
    /\ npc[g] = "select" => g <= non[g] /\ non[g] <= gen

IInv ==
  /\ TypeOK
  /\ LoopInv
  /\ GenerationsInv
  /\ UnbornInv
  /\ OneSupervisor
  /\ OwnChannel
  /\ WaiterInv
  /\ LimiterInv
  /\ HandsInv
=============================================================================
