--------------------------- MODULE LimiterObject ----------------------------
(***************************************************************************)
(* One Limiter of daemon/limiter.go on its own, called by goroutines that  *)
(* do not wait for next: what the object itself promises, as opposed to    *)
(* what module Daemon gets out of it together with its timer.              *)
(***************************************************************************)
EXTENDS Limiter

CONSTANT MaxTime   \* bound: the clock stops there

ASSUME LimiterObjectAssumption == MaxTime \in Nat

\* More of what the provers do not know of powers: each is twice the one before.
ASSUME DoubleAssumption == \A n \in 1..Limit : 2^n = 2 * 2^(n - 1)

VARIABLES
  limiter,   \* the object
  now        \* the clock

limiterVars == <<limiter, now>>

LimiterInit == limiter = NewLimiter /\ now = 1

\* Inc and Dec return whether add granted the restart.
Inc == limiter' = add(limiter, 1, now) /\ UNCHANGED now
Dec == limiter' = add(limiter, -1, now) /\ UNCHANGED now

\* Mutant of Reset: it leaves the count.
ResetLastOnly == limiter' = [limiter EXCEPT !.last = ZeroTime] /\ UNCHANGED now

Reset == limiter' = NewLimiter /\ UNCHANGED now

Pass == now < MaxTime /\ now' = now + 1 /\ UNCHANGED limiter

LimiterNext == Inc \/ Dec \/ Reset \/ Pass

LimiterSpec == LimiterInit /\ [][LimiterNext]_limiterVars

\* The time a command may start again moves to an earlier one only when restarts are
\* taken back (Dec) or forgotten (Reset), whatever the order of the calls: no granted or
\* refused Inc shortens the wait that a goroutine has read from next.
NextNotEarlier ==
  [][NextStart(limiter', now') < NextStart(limiter, now) =>
       limiter'.count < limiter.count \/ limiter' = NewLimiter]_limiterVars
=============================================================================
