-------------------------- MODULE DaemonImplements --------------------------
(***************************************************************************)
(* Daemon implements Supervision: the refinement mapping.  A command that  *)
(* has been reported is waiting, wherever it is: with the goroutine that   *)
(* sends it, in a channel, or with the goroutine that restarts it.         *)
(***************************************************************************)
EXTENDS DaemonInv

stOf(d) ==
  IF ended[d] # "no" THEN "gone"
  ELSE IF wpc[d] = "start" THEN "starting"
  ELSE IF wpc[d] \in {"started", "wait", "report"}
       THEN IF live[d] > 0 THEN "up" ELSE "exited"
  ELSE IF Unborn(d) THEN "new"
  ELSE "waiting"

Promise == INSTANCE Supervision WITH
  Cmd    <- DCmd,
  st     <- [d \in DCmd |-> stOf(d)],
  over   <- {d \in DCmd : GenOf[d] \in cancelled},
  credit <- [d \in DCmd |-> limiter[d].count]

\* Package daemon keeps its promise, through reloads and restarts that interleave: a
\* command goes through its life in order, restarts use up credit, only the limit, the
\* log file or a reload ends it, and after a reload it exits for the last time.
KeepsPromise == Promise!SupSpec

Waits(d) == IF stOf(d) = "waiting" THEN 1 ELSE 0

\* What a reload does stop, although a restart goroutine past its timer does not look at
\* its context: a cancelled command is started again at most once, and only if it was
\* waiting for that when it was cancelled.
LastLife ==
  [][\A d \in DCmd : GenOf[d] \in cancelled =>
       restarts'[d] + Waits(d)' <= restarts[d] + Waits(d)]_vars
=============================================================================
