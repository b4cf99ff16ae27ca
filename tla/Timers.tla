-------------------------------- MODULE Timers --------------------------------
(***************************************************************************)
(* Times: MonotonicTimer (monotonic_timer.h/.cc), seconds and nanoseconds  *)
(* of a monotonic clock, the difference of TIME (time_util.h), and the     *)
(* time at which the timed waits of wspace_asym_util end.                  *)
(*                                                                         *)
(* Times are less than 2^53 ns (104 days), so that the doubles some of     *)
(* them go through are exact.                                              *)
(***************************************************************************)
EXTENDS Integers

CONSTANT Thousand   (* 1000: ms in a second, us in a ms, ns in a us *)

ASSUME ThousandAssumption == Thousand \in Nat \ {0, 1}

Million == Thousand * Thousand
Billion == Thousand * Million

(* MonotonicTimer(s, ns) *)
Timer(s, ns) == [sec |-> s, nsec |-> ns]

(* Quotient and remainder as C++ has them, rounded toward zero. *)
Quotient(a, n) == IF a >= 0 THEN a \div n ELSE -((-a) \div n)
Remainder(a, n) == a - n * Quotient(a, n)

(* MonotonicTimer(ns) *)
TimerOf(ns) == Timer(Quotient(ns, Billion), Remainder(ns, Billion))

GetNSec(t) == t.sec * Billion + t.nsec

(* Mutant: the nanoseconds are compared whatever the seconds are. *)
LtByPart(t, u) == t.sec < u.sec \/ t.nsec < u.nsec

Eq(t, u) == t.sec = u.sec /\ t.nsec = u.nsec
Lt(t, u) == t.sec < u.sec \/ (t.sec = u.sec /\ t.nsec < u.nsec)
Gt(t, u) == t.sec > u.sec \/ (t.sec = u.sec /\ t.nsec > u.nsec)
Le(t, u) == t.sec < u.sec \/ (t.sec = u.sec /\ t.nsec <= u.nsec)
Ge(t, u) == t.sec > u.sec \/ (t.sec = u.sec /\ t.nsec >= u.nsec)

(* operator+= and operator+ *)
Plus(t, u) ==
  LET s == t.sec + u.sec
      ns == t.nsec + u.nsec
  IN IF ns >= Billion THEN Timer(s + 1, ns - Billion) ELSE Timer(s, ns)

(* operator-= and operator-, which only warn when the result is negative *)
Minus(t, u) ==
  LET s == t.sec - u.sec
      ns == t.nsec - u.nsec
  IN IF ns < 0 THEN Timer(s - 1, ns + Billion) ELSE Timer(s, ns)

(* Mutant: the seconds that are left over are not divided. *)
DivLeftOver(t, n) ==
  Timer(Quotient(t.sec, n), Quotient(t.nsec, n) + Remainder(t.sec, n) * Billion)

(* operator/= and operator/ *)
Div(t, n) ==
  Timer(Quotient(t.sec, n),
        Quotient(t.nsec, n) + Remainder(t.sec, n) * Quotient(Billion, n))

(* operator- of TIME: microseconds *)
Interval(end, start) ==
  (end.sec - start.sec) * Million + (end.usec - start.usec)

-----------------------------------------------------------------------------
(* Mutant: the microseconds are never more than a second's. *)
DeadlineWithoutCarry(now, ms) ==
  Timer(now.sec, (now.usec + ms * Thousand) * Thousand)

(* The time of day at which a wait of ms milliseconds ends, as a timespec: *)
(* seconds are carried while there is more than a second of microseconds.  *)
Deadline(now, ms) ==
  LET usec == now.usec + ms * Thousand
      carry == CHOOSE c \in 0..usec \div Million :
                 /\ usec - c * Million <= Million
                 /\ c > 0 => usec - (c - 1) * Million > Million
  IN Timer(now.sec + carry, (usec - carry * Million) * Thousand)

(* WaitWakeAck leaves the nanoseconds 0. *)
DeadlineInSeconds(now, s) == Timer(now.sec + s, 0)

-----------------------------------------------------------------------------
(* What they promise *)

(* pthread_cond_timedwait returns EINVAL for any other time. *)
Normal(t) == t.nsec \in 0..Billion - 1

(* Timers are in the order of the times they stand for, and their sums and *)
(* differences, negative ones too, are exact and have less than a second   *)
(* of nanoseconds, which the comparisons of the results rely on.  A timer  *)
(* made of the nanoseconds is exact, but only for a time that is not       *)
(* negative it is the one the operators give.                              *)
ExactTimers(t, u) ==
  LET a == GetNSec(t)
      b == GetNSec(u)
  IN
  /\ GetNSec(TimerOf(a - b)) = a - b
  /\ TimerOf(a - b) = Minus(t, u) <=> a >= b \/ t.nsec = u.nsec
  /\ Lt(t, u) <=> a < b
  /\ Gt(t, u) <=> a > b
  /\ Le(t, u) <=> a <= b
  /\ Ge(t, u) <=> a >= b
  /\ Eq(t, u) <=> a = b
  /\ Normal(Plus(t, u)) /\ GetNSec(Plus(t, u)) = a + b
  /\ Normal(Minus(t, u)) /\ GetNSec(Minus(t, u)) = a - b

(* A quotient is normal, and at most n - 1 ns short of the exact one: the  *)
(* seconds that are left over are counted as Billion \div n each.          *)
NearQuotient(t, n) ==
  LET q == Div(t, n) IN
  Normal(q) /\ GetNSec(t) - n * GetNSec(q) \in 0..n * (n - 1)

(* A wait ends ms milliseconds from now.  When that is a full second, and  *)
(* now is not the time it ends at, the deadline is not valid: the wait     *)
(* returns at once, and the caller's loop waits again.  A wait for ms      *)
(* seconds without the nanoseconds ends up to a second early.              *)
ExactDeadline(now, ms) ==
  LET d == Deadline(now, ms)
      start == now.sec * Billion + now.usec * Thousand
      usec == now.usec + ms * Thousand
  IN
  /\ GetNSec(d) - start = ms * Million
  /\ ~Normal(d) <=> usec > 0 /\ usec % Million = 0
  /\ GetNSec(DeadlineInSeconds(now, ms)) - start \in (ms - 1) * Billion + 1..ms * Billion
  /\ Interval([sec |-> d.sec, usec |-> d.nsec \div Thousand], now) = ms * Thousand

=============================================================================
