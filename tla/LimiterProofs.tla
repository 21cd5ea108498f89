---------------------------- MODULE LimiterProofs ----------------------------
(***************************************************************************)
(* What one Limiter promises to any callers, for every limit and interval. *)
(***************************************************************************)
EXTENDS LimiterObject, TLAPS

\* The clock never shows ZeroTime, and no restart is granted in the future.
LimiterInv ==
  /\ limiter \in LimiterState
  /\ now \in Nat \ {0}
  /\ limiter.last <= now

\* One more restart, now, does not bring the next one forward.
LEMMA NextGrows ==
  ASSUME NEW l \in LimiterState, NEW t \in Nat \ {0}, l.last <= t, l.count + 1 \in 0..Limit
  PROVE  NextStart([count |-> l.count + 1, last |-> t], t) >= NextStart(l, t)
<1> DEFINE p == 2^l.count
           q == 2^(l.count + 1)
<1>1. /\ l.count \in Nat /\ l.last \in Nat /\ Interval \in Nat
      /\ l.count \in 0..Limit /\ l.count + 1 \in 1..Limit
  BY LimiterAssumption DEF LimiterState
<1>2. p \in Nat
  BY <1>1, PowerAssumption
<1>3. q = 2 * p
  <2>1. (l.count + 1) - 1 = l.count
    BY <1>1
  <2>2. 2^(l.count + 1) = 2 * 2^((l.count + 1) - 1)
    BY <1>1, DoubleAssumption
  <2>3. QED
    BY <2>1, <2>2
<1>4. NextStart([count |-> l.count + 1, last |-> t], t) = t + q * Interval
  BY DEF NextStart, ZeroTime
<1>5. NextStart(l, t) = t \/ NextStart(l, t) = l.last + p * Interval
  BY DEF NextStart
<1> HIDE DEF p, q
<1>6. p * Interval \in Nat /\ q * Interval = p * Interval + p * Interval
  BY <1>1, <1>2, <1>3
<1>7. QED
  BY <1>1, <1>4, <1>5, <1>6

\* The limiter keeps its type under every order of calls.
THEOREM LimiterInductive == LimiterSpec => []LimiterInv
<1>1. LimiterInit => LimiterInv
  BY LimiterAssumption DEF LimiterInit, LimiterInv, NewLimiter, LimiterState, ZeroTime
<1>2. LimiterInv /\ [LimiterNext]_limiterVars => LimiterInv'
  BY LimiterAssumption DEF LimiterInv, LimiterNext, limiterVars, Inc, Dec, Reset, Pass, add, CanAdd,
     NewLimiter, LimiterState, ZeroTime
<1>3. QED
  BY <1>1, <1>2, PTL DEF LimiterSpec

\* The next start moves to an earlier time only by Dec or Reset.
THEOREM NextCorrect == LimiterSpec => NextNotEarlier
<1> DEFINE Later == NextStart(limiter', now') >= NextStart(limiter, now)
<1>1. ASSUME LimiterInv, [LimiterNext]_limiterVars
      PROVE  Later \/ limiter'.count < limiter.count \/ limiter' = NewLimiter
  <2> USE <1>1 DEF LimiterInv
  <2>0. NextStart(limiter, now) \in Nat
    <3>1. 2^limiter.count \in Nat
      BY PowerAssumption DEF LimiterState
    <3> DEFINE p == 2^limiter.count
    <3>2. NextStart(limiter, now) = now \/ NextStart(limiter, now) = limiter.last + p * Interval
      BY DEF NextStart
    <3> HIDE DEF p
    <3>3. QED
      BY <3>1, <3>2, LimiterAssumption DEF LimiterState, p
  <2>1. CASE limiter' = limiter /\ now' = now
    BY <2>0, <2>1
  <2>2. CASE Inc
    <3>1. CASE CanAdd(limiter, 1, now)
      <4>1. limiter' = [count |-> limiter.count + 1, last |-> now] /\ now' = now
        BY <2>2, <3>1 DEF Inc, add
      <4>2. limiter.count + 1 \in 0..Limit
        BY <3>1 DEF CanAdd
      <4>3. QED
        BY <4>1, <4>2, NextGrows
    <3>2. CASE ~CanAdd(limiter, 1, now)
      BY <2>0, <2>2, <3>2 DEF Inc, add
    <3>3. QED
      BY <3>1, <3>2
  <2>3. CASE Dec
    <3>1. CASE CanAdd(limiter, -1, now)
      <4>1. limiter'.count = limiter.count - 1 /\ limiter.count \in Nat
        BY <2>3, <3>1, LimiterAssumption DEF Dec, add, LimiterState
      <4>2. QED
        BY <4>1
    <3>2. CASE ~CanAdd(limiter, -1, now)
      BY <2>0, <2>3, <3>2 DEF Dec, add
    <3>3. QED
      BY <3>1, <3>2
  <2>4. CASE Reset
    BY <2>4 DEF Reset
  <2>5. CASE Pass
    <3>1. limiter' = limiter /\ now' = now + 1
      BY <2>5 DEF Pass
    <3>2. CASE limiter.last = ZeroTime
      BY <3>1, <3>2 DEF NextStart
    <3>3. CASE limiter.last # ZeroTime
      <4>1. NextStart(limiter', now') = NextStart(limiter, now)
        BY <3>1, <3>3 DEF NextStart
      <4>2. QED
        BY <2>0, <4>1
    <3>4. QED
      BY <3>2, <3>3
  <2>6. QED
    BY <2>1, <2>2, <2>3, <2>4, <2>5 DEF LimiterNext, limiterVars
<1>2. ASSUME LimiterInv, LimiterInv', [LimiterNext]_limiterVars
      PROVE  [NextStart(limiter', now') < NextStart(limiter, now) =>
                limiter'.count < limiter.count \/ limiter' = NewLimiter]_limiterVars
  <2>1. NextStart(limiter, now) \in Int /\ NextStart(limiter', now') \in Int
    <3>1. \A l \in LimiterState, t \in Nat : NextStart(l, t) \in Int
      <4> SUFFICES ASSUME NEW l \in LimiterState, NEW t \in Nat PROVE NextStart(l, t) \in Int
        OBVIOUS
      <4>1. 2^l.count * Interval \in Nat
        <5> DEFINE p == 2^l.count
        <5>1. p \in Nat
          BY PowerAssumption DEF LimiterState
        <5> HIDE DEF p
        <5>2. p * Interval \in Nat
          BY <5>1, LimiterAssumption
        <5>3. QED
          BY <5>2 DEF p
      <4>2. QED
        BY <4>1 DEF NextStart, LimiterState
    <3>2. QED
      BY <1>2, <3>1 DEF LimiterInv
  <2>2. QED
    BY <1>1, <1>2, <2>1
<1>3. QED
  BY <1>2, LimiterInductive, PTL DEF LimiterSpec, NextNotEarlier
==============================================================================
