------------------------------ MODULE Limiter ------------------------------
(***************************************************************************)
(* The restart limiter of daemon/limiter.go, as operators on the value a   *)
(* Limiter object holds: `count` restarts since the last reset and `last`, *)
(* the time of the latest one.  Times are natural numbers; time.Time{} is  *)
(* ZeroTime, before every time the clock shows.  The mutex of a Limiter    *)
(* makes add and Reset atomic, so each is one operator; next is also       *)
(* called without the mutex.                                               *)
(***************************************************************************)
EXTENDS Integers

CONSTANTS
  Limit,     \* Limiter.limit: restarts granted between two resets
  Interval   \* Limiter.interval, in ticks of the clock

ASSUME LimiterAssumption ==
  /\ Limit \in Nat
  /\ Interval \in Nat \ {0}

\* Arithmetic that the provers do not know: a power of two is a positive natural.
ASSUME PowerAssumption == \A n \in 0..Limit : 2^n \in Nat \ {0}

ZeroTime == 0

LimiterState == [count : 0..Limit, last : Nat]

\* NewLimiter, and what Reset leaves behind
NewLimiter == [count |-> 0, last |-> ZeroTime]

\* next: the time the limiter lets the command start again, asked at time t
NextStart(l, t) ==
  IF l.last = ZeroTime THEN t ELSE l.last + 2^l.count * Interval

\* Mutant of CanAdd: one restart more than the limit.
CanAddOneMore(l, n, t) ==
  /\ l.last < NextStart(l, t)
  /\ l.count + n \in 0..(Limit + 1)

\* The two guards of add.  The first is meant to space the restarts; it compares
\* `last`, not the current time, with next.
CanAdd(l, n, t) ==
  /\ l.last < NextStart(l, t)
  /\ l.count + n \in 0..Limit

add(l, n, t) ==
  IF CanAdd(l, n, t) THEN [count |-> l.count + n, last |-> t] ELSE l

=============================================================================
