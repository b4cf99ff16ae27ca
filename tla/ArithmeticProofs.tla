-------------------------- MODULE ArithmeticProofs --------------------------
(***************************************************************************)
(* Proofs about Timers, Headers and FairShare: times, waits, headers and   *)
(* the quanta of the fairness modes are what they should be for every      *)
(* input, however long a second is, however large a byte and however many  *)
(* clients share a round.                                                  *)
(***************************************************************************)
EXTENDS MCArithmetic, FoldProofs

-----------------------------------------------------------------------------
(* Products and quotients *)

LEMMA Units ==
  /\ Thousand \in Nat /\ Thousand >= 2
  /\ Million \in Nat /\ Million >= 2 /\ Million = Thousand * Thousand
  /\ Billion \in Nat /\ Billion >= 2 /\ Billion = Thousand * Million
<1>1. Thousand \in Nat /\ Thousand >= 2
  BY ThousandAssumption
<1>2. Million \in Nat /\ Million >= 2 /\ Million = Thousand * Thousand
  BY <1>1 DEF Million
<1>3. Billion \in Nat /\ Billion >= 2 /\ Billion = Thousand * Million
  BY <1>1, <1>2 DEF Billion
<1> QED BY <1>1, <1>2, <1>3

LEMMA DivMod ==
  ASSUME NEW m \in Nat, m > 0, NEW a \in Int
  PROVE  /\ a \div m \in Int /\ a % m \in Int
         /\ a = m * (a \div m) + (a % m) /\ 0 <= a % m /\ a % m < m
  BY SMT

(* Quotient and remainder are unique. *)
LEMMA DivModUnique ==
  ASSUME NEW m \in Nat, m > 0, NEW q \in Int, NEW r \in 0..m - 1
  PROVE  (q * m + r) \div m = q /\ (q * m + r) % m = r
<1> DEFINE a == q * m + r
           p == a \div m
           s == a % m
<1>1. a \in Int /\ r \in Int /\ 0 <= r /\ r < m
  OBVIOUS
<1>2. p \in Int /\ s \in Int /\ a = m * p + s /\ 0 <= s /\ s < m
  BY <1>1, DivMod
<1>3. m * (p - q) = r - s
  BY <1>1, <1>2
<1> HIDE DEF p, s
<1>4. ~(p - q >= 1)
  <2> SUFFICES ASSUME p - q >= 1 PROVE FALSE
    OBVIOUS
  <2>1. m * (p - q) >= m
    BY <1>2
  <2> HIDE DEF a
  <2> QED BY <1>1, <1>2, <1>3, <2>1
<1>5. ~(p - q <= -1)
  <2> SUFFICES ASSUME p - q <= -1 PROVE FALSE
    OBVIOUS
  <2>1. m * (p - q) <= -m
    BY <1>2
  <2> HIDE DEF a
  <2> QED BY <1>1, <1>2, <1>3, <2>1
<1>6. p = q
  BY <1>2, <1>4, <1>5
<1>7. s = r
  BY <1>1, <1>2, <1>3, <1>6
<1> QED BY <1>6, <1>7 DEF p, s

LEMMA ProductOrder ==
  ASSUME NEW m \in Nat, NEW a \in Int, NEW b \in Int, a <= b
  PROVE  a * m <= b * m /\ a * m \in Int /\ b * m \in Int
  BY SMT

(* Of a number that is not negative, C++ has the same quotient and remainder. *)
LEMMA QuotientOfNat ==
  ASSUME NEW m \in Nat, m > 0, NEW a \in Int, a >= 0
  PROVE  Quotient(a, m) = a \div m /\ Remainder(a, m) = a % m
<1>1. a \div m \in Int /\ a % m \in Int /\ a = m * (a \div m) + (a % m)
  BY DivMod
<1>2. Quotient(a, m) = a \div m
  BY DEF Quotient
<1>3. a - m * (a \div m) = a % m
  BY <1>1
<1> QED BY <1>2, <1>3 DEF Remainder

(* Of any number they add up to it. *)
LEMMA QuotientExact ==
  ASSUME NEW m \in Nat, m > 0, NEW a \in Int
  PROVE  /\ Quotient(a, m) \in Int /\ Remainder(a, m) \in Int
         /\ a = Quotient(a, m) * m + Remainder(a, m)
<1>1. a \div m \in Int /\ (-a) \div m \in Int
  BY DivMod
<1>2. Quotient(a, m) \in Int
  BY <1>1 DEF Quotient
<1> DEFINE q == Quotient(a, m)
<1> HIDE DEF q
<1>3. q \in Int
  BY <1>2 DEF q
<1>4. a - m * q \in Int /\ a = q * m + (a - m * q)
  BY <1>3
<1> QED BY <1>2, <1>4 DEF q, Remainder

-----------------------------------------------------------------------------
(* Timers *)

AnyTimer == [sec : Int, nsec : 0..Billion - 1]

LEMMA TimersInOrder ==
  ASSUME NEW t \in AnyTimer, NEW u \in AnyTimer
  PROVE  /\ Lt(t, u) => GetNSec(t) < GetNSec(u)
         /\ Eq(t, u) => GetNSec(t) = GetNSec(u)
         /\ Lt(t, u) \/ Eq(t, u) \/ Lt(u, t)
<1>1. /\ t.sec \in Int /\ u.sec \in Int /\ t.nsec \in Int /\ u.nsec \in Int
      /\ 0 <= t.nsec /\ t.nsec < Billion /\ 0 <= u.nsec /\ u.nsec < Billion
  BY Units DEF AnyTimer
<1>2. Lt(t, u) \/ Eq(t, u) \/ Lt(u, t)
  BY <1>1 DEF Lt, Eq
<1>3. Eq(t, u) => GetNSec(t) = GetNSec(u)
  BY <1>1 DEF Eq, GetNSec
<1>4. CASE t.sec < u.sec
  <2>1. (t.sec + 1) * Billion <= u.sec * Billion /\ u.sec * Billion \in Int
    BY <1>1, <1>4, Units, ProductOrder
  <2>2. (t.sec + 1) * Billion = t.sec * Billion + Billion /\ t.sec * Billion \in Int
    BY <1>1, Units
  <2>3. GetNSec(t) < GetNSec(u)
    BY <1>1, <2>1, <2>2, Units DEF GetNSec
  <2> QED BY <1>2, <1>3, <2>3
<1>5. CASE t.sec = u.sec /\ t.nsec < u.nsec
  <2>1. t.sec * Billion \in Int
    BY <1>1, Units
  <2>2. GetNSec(t) < GetNSec(u)
    BY <1>1, <1>5, <2>1 DEF GetNSec
  <2> QED BY <1>2, <1>3, <2>2
<1> QED BY <1>2, <1>3, <1>4, <1>5 DEF Lt

(* A timer made of nanoseconds stands for them. *)
LEMMA TimerOfExact ==
  ASSUME NEW x \in Int
  PROVE  GetNSec(TimerOf(x)) = x
<1>1. TimerOf(x) = [sec |-> Quotient(x, Billion), nsec |-> Remainder(x, Billion)]
  BY DEF TimerOf, Timer
<1>2. x = Quotient(x, Billion) * Billion + Remainder(x, Billion)
  BY Units, QuotientExact
<1> QED BY <1>1, <1>2 DEF GetNSec

(* It is the normal one, except for a negative time that is not whole      *)
(* seconds.                                                                *)
LEMMA TimerOfNormal ==
  ASSUME NEW x \in Int, NEW t \in AnyTimer, x = GetNSec(t)
  PROVE  TimerOf(x) = t <=> x >= 0 \/ t.nsec = 0
<1> DEFINE s == t.sec
           r == t.nsec
           q == Quotient(x, Billion)
<1>1. /\ s \in Int /\ r \in 0..Billion - 1 /\ r \in Int /\ 0 <= r
      /\ t = [sec |-> s, nsec |-> r] /\ x = s * Billion + r
      /\ Billion \in Nat /\ Billion > 0 /\ s * Billion \in Int
  BY Units DEF AnyTimer, GetNSec
<1>2. TimerOf(x) = [sec |-> q, nsec |-> Remainder(x, Billion)]
  BY DEF TimerOf, Timer
<1>3. x \div Billion = s /\ x % Billion = r
  BY <1>1, DivModUnique
<1>4. CASE x >= 0
  <2>1. q = s /\ Remainder(x, Billion) = r
    BY <1>1, <1>3, <1>4, QuotientOfNat
  <2> QED BY <1>1, <1>2, <1>4, <2>1
<1>5. CASE x < 0 /\ r = 0
  <2>1. -x = (-s) * Billion + 0 /\ -s \in Int /\ 0 \in 0..Billion - 1
    BY <1>1, <1>5
  <2>2. (-x) \div Billion = -s
    BY <1>1, <2>1, DivModUnique
  <2>3. q = s
    BY <1>1, <1>5, <2>2 DEF Quotient
  <2>4. Remainder(x, Billion) = 0
    <3>1. Billion * s = x
      BY <1>1, <1>5
    <3> QED BY <2>3, <3>1 DEF Remainder
  <2> QED BY <1>1, <1>2, <1>5, <2>3, <2>4
<1>6. CASE x < 0 /\ r # 0
  <2> DEFINE p == (-x) \div Billion
  <2>1. p \in Int /\ (-x) % Billion \in Int /\ 0 <= (-x) % Billion
        /\ -x = Billion * p + ((-x) % Billion)
    BY <1>1, DivMod
  <2>2. q = -p
    BY <1>6 DEF Quotient
  <2>3. Remainder(x, Billion) = x - Billion * q
    BY DEF Remainder
  <2> HIDE DEF p, q
  <2>4. Billion * q = -(Billion * p) /\ Billion * p \in Int
    BY <1>1, <2>1, <2>2
  <2>5. Remainder(x, Billion) <= 0
    BY <2>1, <2>3, <2>4
  <2>6. Remainder(x, Billion) # r
    BY <1>1, <1>6, <2>5
  <2>7. TimerOf(x).nsec # t.nsec
    BY <1>2, <2>6
  <2> QED BY <1>6, <2>7
<1> QED BY <1>4, <1>5, <1>6, <1>1

(* Every timer, and every two, a negative one too. *)
THEOREM ExactTimersHold ==
  ASSUME NEW t \in AnyTimer, NEW u \in AnyTimer
  PROVE  ExactTimers(t, u)
<1>1. /\ t.sec \in Int /\ u.sec \in Int /\ t.nsec \in Int /\ u.nsec \in Int
      /\ 0 <= t.nsec /\ t.nsec < Billion /\ 0 <= u.nsec /\ u.nsec < Billion
      /\ t.nsec \in 0..Billion - 1
  BY Units DEF AnyTimer
<1>2. /\ t.sec * Billion \in Int /\ u.sec * Billion \in Int
      /\ GetNSec(t) = t.sec * Billion + t.nsec /\ GetNSec(u) = u.sec * Billion + u.nsec
      /\ GetNSec(t) \in Int /\ GetNSec(u) \in Int
  BY <1>1, Units DEF GetNSec
<1>3. GetNSec(TimerOf(GetNSec(t) - GetNSec(u))) = GetNSec(t) - GetNSec(u)
  BY <1>2, TimerOfExact
<1>4. /\ Lt(t, u) => GetNSec(t) < GetNSec(u)
      /\ Lt(u, t) => GetNSec(u) < GetNSec(t)
      /\ Eq(t, u) => GetNSec(t) = GetNSec(u)
      /\ Lt(t, u) \/ Eq(t, u) \/ Lt(u, t)
  BY TimersInOrder
<1>5. /\ Gt(t, u) <=> Lt(u, t)
      /\ Le(t, u) <=> Lt(t, u) \/ Eq(t, u)
      /\ Ge(t, u) <=> Lt(u, t) \/ Eq(t, u)
  BY <1>1 DEF Lt, Gt, Le, Ge, Eq
<1>6. /\ Lt(t, u) <=> GetNSec(t) < GetNSec(u)
      /\ Gt(t, u) <=> GetNSec(t) > GetNSec(u)
      /\ Le(t, u) <=> GetNSec(t) <= GetNSec(u)
      /\ Ge(t, u) <=> GetNSec(t) >= GetNSec(u)
      /\ Eq(t, u) <=> GetNSec(t) = GetNSec(u)
  BY <1>2, <1>4, <1>5
<1>7. Normal(Plus(t, u)) /\ GetNSec(Plus(t, u)) = GetNSec(t) + GetNSec(u)
  <2>1. /\ (t.sec + u.sec) * Billion = t.sec * Billion + u.sec * Billion
        /\ (t.sec + u.sec + 1) * Billion = t.sec * Billion + u.sec * Billion + Billion
    BY <1>1, Units
  <2>2. CASE t.nsec + u.nsec >= Billion
    <3>1. Plus(t, u) = [sec |-> t.sec + u.sec + 1, nsec |-> t.nsec + u.nsec - Billion]
      BY <1>1, <2>2, Units DEF Plus, Timer
    <3>2. Plus(t, u).sec = t.sec + u.sec + 1 /\ Plus(t, u).nsec = t.nsec + u.nsec - Billion
      BY <3>1
    <3> QED BY <1>1, <1>2, <2>1, <2>2, <3>2, Units DEF Normal, GetNSec
  <2>3. CASE ~(t.nsec + u.nsec >= Billion)
    <3>1. Plus(t, u) = [sec |-> t.sec + u.sec, nsec |-> t.nsec + u.nsec]
      BY <2>3 DEF Plus, Timer
    <3>2. Plus(t, u).sec = t.sec + u.sec /\ Plus(t, u).nsec = t.nsec + u.nsec
      BY <3>1
    <3> QED BY <1>1, <1>2, <2>1, <2>3, <3>2, Units DEF Normal, GetNSec
  <2> QED BY <2>2, <2>3
<1>8. Normal(Minus(t, u)) /\ GetNSec(Minus(t, u)) = GetNSec(t) - GetNSec(u)
  <2>1. /\ (t.sec - u.sec) * Billion = t.sec * Billion - u.sec * Billion
        /\ (t.sec - u.sec - 1) * Billion = t.sec * Billion - u.sec * Billion - Billion
    BY <1>1, Units
  <2>2. CASE t.nsec - u.nsec < 0
    <3>1. Minus(t, u) = [sec |-> t.sec - u.sec - 1, nsec |-> t.nsec - u.nsec + Billion]
      BY <2>2 DEF Minus, Timer
    <3>2. Minus(t, u).sec = t.sec - u.sec - 1 /\ Minus(t, u).nsec = t.nsec - u.nsec + Billion
      BY <3>1
    <3> QED BY <1>1, <1>2, <2>1, <2>2, <3>2, Units DEF Normal, GetNSec
  <2>3. CASE ~(t.nsec - u.nsec < 0)
    <3>1. Minus(t, u) = [sec |-> t.sec - u.sec, nsec |-> t.nsec - u.nsec]
      BY <2>3 DEF Minus, Timer
    <3>2. Minus(t, u).sec = t.sec - u.sec /\ Minus(t, u).nsec = t.nsec - u.nsec
      BY <3>1
    <3> QED BY <1>1, <1>2, <2>1, <2>3, <3>2, Units DEF Normal, GetNSec
  <2> QED BY <2>2, <2>3
<1>9. TimerOf(GetNSec(t) - GetNSec(u)) = Minus(t, u)
        <=> GetNSec(t) >= GetNSec(u) \/ t.nsec = u.nsec
  <2> DEFINE m == Minus(t, u)
  <2>1. m \in AnyTimer
    <3>1. m.sec \in Int /\ m = [sec |-> m.sec, nsec |-> m.nsec]
      BY <1>1 DEF Minus, Timer
    <3>2. m.nsec \in 0..Billion - 1
      BY <1>8 DEF Normal
    <3> HIDE DEF m
    <3> QED BY <3>1, <3>2 DEF AnyTimer
  <2>2. m.nsec = 0 <=> t.nsec = u.nsec
    <3>1. m.nsec = IF t.nsec - u.nsec < 0 THEN t.nsec - u.nsec + Billion ELSE t.nsec - u.nsec
      BY DEF Minus, Timer
    <3> HIDE DEF m
    <3> QED BY <1>1, <3>1, Units
  <2>3. GetNSec(t) - GetNSec(u) \in Int /\ GetNSec(t) - GetNSec(u) = GetNSec(m)
    BY <1>2, <1>8
  <2>4. GetNSec(t) - GetNSec(u) >= 0 <=> GetNSec(t) >= GetNSec(u)
    BY <1>2
  <2> HIDE DEF m
  <2>5. TimerOf(GetNSec(t) - GetNSec(u)) = m
          <=> GetNSec(t) - GetNSec(u) >= 0 \/ m.nsec = 0
    BY <2>1, <2>3, TimerOfNormal
  <2> QED BY <2>2, <2>4, <2>5 DEF m
<1> QED BY <1>3, <1>6, <1>7, <1>8, <1>9 DEF ExactTimers

(* A quotient is short by the remainders of the seconds and of a second's  *)
(* nanoseconds.                                                            *)
THEOREM NearQuotientHolds ==
  ASSUME NEW t \in [sec : Nat, nsec : 0..Billion - 1], NEW n \in Nat \ {0}
  PROVE  NearQuotient(t, n)
<1> DEFINE b == Billion \div n
           x == Billion % n
           s == t.sec \div n
           r == t.sec % n
           p == t.nsec \div n
           y == t.nsec % n
           c == p + r * b
<1>1. /\ t.sec \in Int /\ 0 <= t.sec /\ t.nsec \in Int /\ 0 <= t.nsec /\ t.nsec < Billion
      /\ n \in Int /\ n >= 1 /\ n \in Nat /\ Billion \in Int
  BY Units
<1>2. /\ b \in Int /\ x \in Int /\ Billion = n * b + x /\ 0 <= x /\ x < n
      /\ s \in Int /\ r \in Int /\ t.sec = n * s + r /\ 0 <= r /\ r < n
      /\ p \in Int /\ y \in Int /\ t.nsec = n * p + y /\ 0 <= y /\ y < n
  <2>1. b \in Int /\ x \in Int /\ Billion = n * b + x /\ 0 <= x /\ x < n
    BY <1>1, DivMod
  <2>2. \A a \in Int : /\ a \div n \in Int /\ a % n \in Int
                       /\ a = n * (a \div n) + (a % n) /\ 0 <= a % n /\ a % n < n
    BY <1>1, DivMod
  <2>3. s \in Int /\ r \in Int /\ t.sec = n * s + r /\ 0 <= r /\ r < n
    BY <1>1, <2>2
  <2>4. p \in Int /\ y \in Int /\ t.nsec = n * p + y /\ 0 <= y /\ y < n
    BY <1>1, <2>2
  <2> QED BY <2>1, <2>3, <2>4
<1>3. Div(t, n) = [sec |-> s, nsec |-> c]
  <2>1. /\ Quotient(t.sec, n) = s /\ Remainder(t.sec, n) = r
        /\ Quotient(t.nsec, n) = p /\ Quotient(Billion, n) = b
    <3>1. n \in Nat /\ n > 0 /\ Billion >= 0
      BY <1>1, Units
    <3>2. \A a \in Int : a >= 0 => Quotient(a, n) = a \div n /\ Remainder(a, n) = a % n
      BY <3>1, QuotientOfNat
    <3> QED BY <1>1, <3>1, <3>2
  <2> QED BY <2>1 DEF Div, Timer
<1>4. Div(t, n).sec = s /\ Div(t, n).nsec = c
  BY <1>3
<1> HIDE DEF b, x, s, r, p, y
<1>5. /\ r * b \in Int /\ r * x \in Int /\ s * Billion \in Int /\ c \in Int
      /\ n * c = n * p + n * (r * b)
  BY <1>1, <1>2
<1>6. n * (r * b) = r * (n * b) /\ r * (n * b) = r * Billion - r * x
  <2>1. n * (r * b) = r * (n * b)
    BY <1>1, <1>2
  <2>2. r * (n * b) = r * (Billion - x)
    BY <1>1, <1>2
  <2>3. r * (Billion - x) = r * Billion - r * x
    BY <1>1, <1>2
  <2> QED BY <2>1, <2>2, <2>3
<1>7. GetNSec(t) - n * GetNSec(Div(t, n)) = r * x + y
  <2>1. t.sec * Billion = n * (s * Billion) + r * Billion
    <3>1. t.sec * Billion = (n * s + r) * Billion
      BY <1>2
    <3>2. (n * s + r) * Billion = n * (s * Billion) + r * Billion
      BY <1>1, <1>2
    <3> QED BY <3>1, <3>2
  <2>2. n * (s * Billion + c) = n * (s * Billion) + n * c
    BY <1>1, <1>5
  <2>3. /\ n * (s * Billion) \in Int /\ r * Billion \in Int /\ n * c \in Int /\ n * p \in Int
        /\ n * (r * b) \in Int
    BY <1>1, <1>2, <1>5
  <2> HIDE DEF c
  <2>4. (t.sec * Billion + t.nsec) - n * (s * Billion + c) = r * x + y
    BY <1>1, <1>2, <1>5, <1>6, <2>1, <2>2, <2>3
  <2> QED BY <1>4, <2>4 DEF GetNSec
<1>8. r * x + y \in 0..n * (n - 1)
  <2>1. 0 <= r * x /\ r * x <= (n - 1) * x /\ (n - 1) * x <= (n - 1) * (n - 1)
    BY <1>1, <1>2
  <2>2. (n - 1) * (n - 1) + (n - 1) = n * (n - 1)
    BY <1>1
  <2>3. (n - 1) * (n - 1) \in Int /\ n * (n - 1) \in Int /\ (n - 1) * x \in Int
    BY <1>1, <1>2
  <2> QED BY <1>1, <1>2, <1>5, <2>1, <2>2, <2>3
<1>9. c \in 0..Billion - 1
  <2>1. 0 <= p /\ 0 <= b
    <3>1. ~(p <= -1)
      <4> SUFFICES ASSUME p <= -1 PROVE FALSE
        OBVIOUS
      <4>1. n * p <= -n
        BY <1>1, <1>2
      <4> QED BY <1>1, <1>2, <4>1
    <3>2. ~(b <= -1)
      <4> SUFFICES ASSUME b <= -1 PROVE FALSE
        OBVIOUS
      <4>1. n * b <= -n
        BY <1>1, <1>2
      <4> QED BY <1>1, <1>2, <4>1, Units
    <3> QED BY <1>2, <3>1, <3>2
  <2>2. 0 <= r * b /\ 0 <= c
    BY <1>2, <2>1
  <2>3. r * Billion <= (n - 1) * Billion /\ (n - 1) * Billion = n * Billion - Billion
    BY <1>1, <1>2, Units
  <2>4. 0 <= r * x
    BY <1>2
  <2>5. n * c < n * Billion
    <3>1. n * p \in Int /\ n * (r * b) \in Int /\ n * c \in Int /\ n * Billion \in Int
          /\ r * Billion \in Int
      BY <1>1, <1>2, <1>5
    <3> HIDE DEF c
    <3> QED BY <1>1, <1>2, <1>5, <1>6, <2>3, <2>4, <3>1
  <2> HIDE DEF c
  <2>6. ~(c >= Billion)
    <3> SUFFICES ASSUME c >= Billion PROVE FALSE
      OBVIOUS
    <3>1. n * c >= n * Billion /\ n * c \in Int /\ n * Billion \in Int
      BY <1>1, <1>5
    <3> QED BY <2>5, <3>1
  <2> QED BY <1>1, <1>5, <2>2, <2>6
<1> QED BY <1>4, <1>7, <1>8, <1>9 DEF NearQuotient, Normal


-----------------------------------------------------------------------------
(* Timed waits *)

(* The seconds a deadline carries leave the microseconds they should. *)
LEMMA CarryExact ==
  ASSUME NEW usec \in Nat,
         NEW carry,
         carry = CHOOSE c \in 0..usec \div Million :
                   /\ usec - c * Million <= Million
                   /\ c > 0 => usec - (c - 1) * Million > Million
  PROVE  /\ carry \in Nat /\ carry * Million \in Int
         /\ 0 <= usec - carry * Million /\ usec - carry * Million <= Million
         /\ usec - carry * Million = Million <=> usec > 0 /\ usec % Million = 0
<1> DEFINE q == usec \div Million
           r == usec % Million
           OK(c) == /\ usec - c * Million <= Million
                    /\ c > 0 => usec - (c - 1) * Million > Million
<1>1. Million \in Nat /\ Million >= 2 /\ usec \in Int /\ 0 <= usec
  BY Units
<1>2. q \in Int /\ r \in Int /\ usec = Million * q + r /\ 0 <= r /\ r < Million
  BY <1>1, DivMod
<1> HIDE DEF q, r
<1>3. 0 <= q
  <2> SUFFICES ASSUME q <= -1 PROVE FALSE
    BY <1>2
  <2>1. Million * q <= -Million
    BY <1>1, <1>2
  <2> QED BY <1>1, <1>2, <2>1
<1>4. \E c \in 0..q : OK(c)
  <2>1. CASE r = 0 /\ q > 0
    <3>1. /\ (q - 1) * Million = Million * q - Million
          /\ (q - 1 - 1) * Million = Million * q - Million - Million
          /\ Million * q \in Int
      BY <1>1, <1>2
    <3>2. q - 1 \in 0..q /\ OK(q - 1)
      BY <1>1, <1>2, <1>3, <2>1, <3>1
    <3> QED BY <3>2
  <2>2. CASE ~(r = 0 /\ q > 0)
    <3>1. q * Million = Million * q /\ (q - 1) * Million = Million * q - Million
          /\ Million * q \in Int
      BY <1>1, <1>2
    <3>2. q \in 0..q /\ OK(q)
      BY <1>1, <1>2, <1>3, <2>2, <3>1
    <3> QED BY <3>2
  <2> QED BY <2>1, <2>2
<1>5. carry = CHOOSE c \in 0..q : OK(c)
  BY DEF q
<1> HIDE DEF OK
<1>6. carry \in 0..q /\ OK(carry)
  BY <1>4, <1>5
<1>7. /\ carry \in Int /\ 0 <= carry /\ carry <= q /\ carry * Million \in Int
      /\ (carry - 1) * Million = carry * Million - Million
      /\ Million * q \in Int /\ carry * Million <= Million * q
  <2>1. carry \in Int /\ 0 <= carry /\ carry <= q
    BY <1>2, <1>6
  <2>2. carry * Million <= q * Million
    BY <1>1, <1>2, <2>1, ProductOrder
  <2>3. q * Million = Million * q /\ (carry - 1) * Million = carry * Million - Million
        /\ carry * Million \in Int /\ Million * q \in Int
    BY <1>1, <1>2, <2>1
  <2> QED BY <2>1, <2>2, <2>3
<1>8. /\ usec - carry * Million <= Million
      /\ carry > 0 => usec - carry * Million > 0
      /\ 0 <= usec - carry * Million
  <2>1. /\ usec - carry * Million <= Million
        /\ carry > 0 => usec - (carry - 1) * Million > Million
    BY <1>6 DEF OK
  <2> QED BY <1>1, <1>2, <1>7, <2>1
<1>9. usec - carry * Million = Million => usec > 0 /\ r = 0
  <2> SUFFICES ASSUME usec - carry * Million = Million PROVE usec > 0 /\ r = 0
    OBVIOUS
  <2>1. usec = (carry + 1) * Million + 0
    <3>1. (carry + 1) * Million = carry * Million + Million
      BY <1>1, <1>7
    <3> QED BY <1>1, <1>7, <3>1
  <2>2. 0 \in 0..Million - 1 /\ carry + 1 \in Int /\ Million > 0
    BY <1>1, <1>7
  <2>3. ((carry + 1) * Million + 0) % Million = 0
    BY <1>1, <2>2, DivModUnique
  <2>4. 0 <= carry * Million
    BY <1>1, <1>7
  <2>5. r = 0
    BY <2>1, <2>3 DEF r
  <2>6. usec > 0
    BY <1>1, <1>7, <2>4
  <2> QED BY <2>5, <2>6
<1>10. usec > 0 /\ r = 0 => usec - carry * Million = Million
  <2> SUFFICES ASSUME usec > 0, r = 0 PROVE usec - carry * Million = Million
    OBVIOUS
  <2>1. usec - carry * Million = (q - carry) * Million
    <3>1. (q - carry) * Million = Million * q - carry * Million
      BY <1>1, <1>2, <1>7
    <3> QED BY <1>1, <1>2, <1>7, <3>1
  <2>2. CASE q - carry >= 2
    <3>1. (q - carry) * Million >= 2 * Million
      BY <1>1, <1>2, <1>7, <2>2, ProductOrder
    <3> QED BY <1>1, <1>7, <1>8, <2>1, <3>1
  <2>3. CASE q - carry = 1
    BY <1>1, <2>1, <2>3
  <2>4. CASE q - carry = 0
    <3>1. usec - carry * Million = 0
      BY <1>1, <2>1, <2>4
    <3>2. q > 0
      BY <1>1, <1>2, <1>3
    <3>3. carry > 0
      BY <1>2, <1>7, <2>4, <3>2
    <3> QED BY <1>8, <3>1, <3>3
  <2> QED BY <1>2, <1>7, <2>2, <2>3, <2>4
<1>11. usec - carry * Million = Million <=> usec > 0 /\ usec % Million = 0
  BY <1>9, <1>10 DEF r
<1>12. carry \in Nat
  BY <1>7
<1> QED BY <1>7, <1>8, <1>11, <1>12

(* The deadline of every wait, at every time of day. *)
THEOREM ExactDeadlineHolds ==
  ASSUME NEW now \in [sec : Int, usec : 0..Million - 1], NEW ms \in Nat
  PROVE  ExactDeadline(now, ms)
<1> DEFINE usec == now.usec + ms * Thousand
           carry == CHOOSE c \in 0..usec \div Million :
                      /\ usec - c * Million <= Million
                      /\ c > 0 => usec - (c - 1) * Million > Million
           left == usec - carry * Million
           d == Deadline(now, ms)
<1>1. /\ now.sec \in Int /\ now.usec \in Int /\ 0 <= now.usec /\ now.usec < Million
      /\ ms \in Int /\ 0 <= ms /\ ms * Thousand \in Int /\ 0 <= ms * Thousand
  BY Units
<1>2. usec \in Nat
  BY <1>1
<1>3. d = [sec |-> now.sec + carry, nsec |-> left * Thousand]
  BY DEF Deadline, Timer
<1>4. d.sec = now.sec + carry /\ d.nsec = left * Thousand
  BY <1>3
<1> HIDE DEF carry, d
<1>5. /\ carry \in Nat /\ carry * Million \in Int /\ left \in Int
      /\ 0 <= left /\ left <= Million
      /\ left = Million <=> usec > 0 /\ usec % Million = 0
  <2> HIDE DEF usec
  <2>1. /\ carry \in Nat /\ carry * Million \in Int
        /\ 0 <= usec - carry * Million /\ usec - carry * Million <= Million
        /\ usec - carry * Million = Million <=> usec > 0 /\ usec % Million = 0
    BY <1>2, CarryExact DEF carry
  <2>2. left \in Int
    BY <1>2, <2>1
  <2> QED BY <2>1, <2>2
<1>6. left + carry * Million = now.usec + ms * Thousand
  BY <1>1, <1>2, <1>5
<1> HIDE DEF left
<1>7. ~Normal(d) <=> usec > 0 /\ usec % Million = 0
  <2>1. left * Thousand \in Int /\ 0 <= left * Thousand
    BY <1>5, Units
  <2>2. CASE left = Million
    <3>1. left * Thousand = Billion
      BY <2>2, Units
    <3> QED BY <1>4, <1>5, <2>2, <3>1, Units DEF Normal
  <2>3. CASE left <= Million - 1
    <3>1. left * Thousand <= (Million - 1) * Thousand
      BY <1>5, <2>3, Units, ProductOrder
    <3>2. (Million - 1) * Thousand = Billion - Thousand
      BY Units
    <3>3. left * Thousand \in 0..Billion - 1
      BY <2>1, <3>1, <3>2, Units
    <3> QED BY <1>4, <1>5, <2>3, <3>3, Units DEF Normal
  <2> QED BY <1>5, <2>2, <2>3, Units
<1>8. GetNSec(d) - (now.sec * Billion + now.usec * Thousand) = ms * Million
  <2>1. (now.sec + carry) * Billion = now.sec * Billion + carry * Billion
    BY <1>1, <1>5, Units
  <2>2. carry * Billion = (carry * Million) * Thousand
    BY <1>5, Units
  <2>3. left * Thousand + (carry * Million) * Thousand
          = now.usec * Thousand + (ms * Thousand) * Thousand
    <3>1. (left + carry * Million) * Thousand = left * Thousand + (carry * Million) * Thousand
      BY <1>5, Units
    <3>2. (now.usec + ms * Thousand) * Thousand
            = now.usec * Thousand + (ms * Thousand) * Thousand
      BY <1>1, Units
    <3> QED BY <1>6, <3>1, <3>2
  <2>4. (ms * Thousand) * Thousand = ms * Million
    BY <1>1, Units
  <2>5. /\ now.sec * Billion \in Int /\ carry * Billion \in Int /\ left * Thousand \in Int
        /\ now.usec * Thousand \in Int /\ ms * Million \in Int
    BY <1>1, <1>5, Units
  <2>6. GetNSec(d) = (now.sec + carry) * Billion + left * Thousand
    BY <1>4 DEF GetNSec
  <2> QED BY <2>1, <2>2, <2>3, <2>4, <2>5, <2>6
<1>9. GetNSec(DeadlineInSeconds(now, ms)) - (now.sec * Billion + now.usec * Thousand)
        \in (ms - 1) * Billion + 1..ms * Billion
  <2>1. GetNSec(DeadlineInSeconds(now, ms)) = (now.sec + ms) * Billion + 0
    BY DEF GetNSec, DeadlineInSeconds, Timer
  <2>2. /\ (now.sec + ms) * Billion = now.sec * Billion + ms * Billion
        /\ (ms - 1) * Billion = ms * Billion - Billion
        /\ now.sec * Billion \in Int /\ ms * Billion \in Int /\ now.usec * Thousand \in Int
        /\ 0 <= now.usec * Thousand
    BY <1>1, Units
  <2>3. now.usec * Thousand <= (Million - 1) * Thousand
    BY <1>1, Units, ProductOrder
  <2>4. (Million - 1) * Thousand = Billion - Thousand
    BY Units
  <2> QED BY <2>1, <2>2, <2>3, <2>4, Units
<1>10. Interval([sec |-> d.sec, usec |-> d.nsec \div Thousand], now) = ms * Thousand
  <2>1. (left * Thousand + 0) \div Thousand = left
    BY <1>5, Units, DivModUnique
  <2>2. d.nsec \div Thousand = left
    <3>1. left * Thousand + 0 = left * Thousand
      BY <1>5, Units
    <3> QED BY <1>4, <2>1, <3>1
  <2>3. Interval([sec |-> d.sec, usec |-> d.nsec \div Thousand], now)
          = ((now.sec + carry) - now.sec) * Million + (left - now.usec)
    BY <1>4, <2>2 DEF Interval
  <2>4. (now.sec + carry) - now.sec = carry
    BY <1>1, <1>5
  <2> QED BY <1>1, <1>5, <1>6, <2>3, <2>4
<1> QED BY <1>7, <1>8, <1>9, <1>10 DEF ExactDeadline, d

-----------------------------------------------------------------------------
(* Headers *)

(* No two rates have the same code. *)
LEMMA CodesDiffer ==
  ASSUME NEW e \in RateCodes, NEW f \in RateCodes, e[2] = f[2]
  PROVE  e[1] = f[1]
  BY DEF RateCodes

LEMMA RateHasCode ==
  ASSUME NEW rate \in Rates
  PROVE  HasCode(rate)
  BY DEF Rates, RateCodes, HasCode

(* Every rate the card has, with any number and length. *)
THEOREM DataReadBackHolds ==
  ASSUME NEW seq, NEW len, NEW rate \in Rates
  PROVE  DataReadBack(seq, len, rate)
<1> DEFINE e == CHOOSE x \in RateCodes : x[1] = rate
           f == CHOOSE x \in RateCodes : x[2] = e[2]
<1>1. HasCode(rate)
  BY RateHasCode
<1>2. e \in RateCodes /\ e[1] = rate
  BY <1>1 DEF HasCode
<1> HIDE DEF e
<1>3. f \in RateCodes /\ f[2] = e[2]
  BY <1>2
<1>4. RateOf(CodeOf(rate)) = f[1]
  BY DEF RateOf, CodeOf, e
<1> HIDE DEF f
<1>5. RateOf(CodeOf(rate)) = rate
  BY <1>2, <1>3, <1>4, CodesDiffer
<1> DEFINE h == SetAthHdr(seq, len, rate)
<1>6. h.type = "ATH_DATA" /\ h.seq = seq /\ h.len = len /\ h.rate = CodeOf(rate)
  BY DEF SetAthHdr
<1>7. /\ SetAthHdrStops(len, rate) <=> len > MaxDataLen
      /\ ParseAthHdrStops(h) <=> len > MaxDataLen
  BY <1>1, <1>6 DEF SetAthHdrStops, ParseAthHdrStops
<1>8. ParseAthHdr(h).seq = seq /\ ParseAthHdr(h).len = len /\ ParseAthHdr(h).code = CodeOf(rate)
  BY <1>6 DEF ParseAthHdr
<1> HIDE DEF h
<1> QED BY <1>5, <1>7, <1>8 DEF DataReadBack, h

LEMMA ByteIsItself ==
  ASSUME NEW b \in 0..ByteSpace - 1
  PROVE  b % ByteSpace = b
<1>1. ByteSpace \in Nat /\ ByteSpace > 0 /\ 0 \in Int
  BY HeaderAssumption
<1>2. (0 * ByteSpace + b) % ByteSpace = b
  BY <1>1, DivModUnique
<1>3. 0 * ByteSpace + b = b
  BY <1>1
<1> QED BY <1>2, <1>3

(* Every batch of less than a byte's range of packets. *)
THEOREM CodeReadBackHolds ==
  ASSUME NEW rawSeq \in Nat, NEW batchId \in Nat, NEW startSeq \in Nat,
         NEW ind \in Int, NEW k \in Int, NEW n \in Nat
  PROVE  CodeReadBack(rawSeq, batchId, startSeq, ind, k, n)
<1> DEFINE h == SetHeader(rawSeq, batchId, startSeq, "ATH_CODE", ind, k, n)
<1> SUFFICES ASSUME ~SetHeaderStops(rawSeq, batchId, startSeq, ind, k, n), n < ByteSpace
             PROVE  IF k \in 1..MaxBatchSize
                    THEN /\ ~ParseHeaderStops(h)
                         /\ ParseHeader(h) = [batchId |-> batchId, startSeq |-> startSeq,
                                              ind |-> ind, k |-> k, n |-> n]
                    ELSE ParseHeaderStops(h)
  BY DEF CodeReadBack
<1>1. batchId > 0 /\ startSeq > 0 /\ ind \in 0..n - 1 /\ k \in 0..n
  BY DEF SetHeaderStops
<1>2. ByteSpace \in Nat /\ MaxBatchSize \in Nat
  BY HeaderAssumption
<1>3. ind \in 0..ByteSpace - 1 /\ k \in 0..ByteSpace - 1 /\ n \in 0..ByteSpace - 1
  BY <1>1, <1>2
<1>4. ind % ByteSpace = ind /\ k % ByteSpace = k /\ n % ByteSpace = n
  BY <1>3, ByteIsItself
<1>5. h.type = "ATH_CODE" /\ h.batchId = batchId /\ h.startSeq = startSeq
      /\ h.ind = ind /\ h.k = k /\ h.n = n
  BY <1>4 DEF SetHeader
<1> HIDE DEF h
<1>6. ParseHeader(h) = [batchId |-> batchId, startSeq |-> startSeq,
                        ind |-> ind, k |-> k, n |-> n]
  BY <1>5 DEF ParseHeader
<1>7. ParseHeaderStops(h) <=> k \notin 1..n \/ k > MaxBatchSize
  BY <1>1, <1>5 DEF ParseHeaderStops
<1> QED BY <1>1, <1>2, <1>6, <1>7

-----------------------------------------------------------------------------
(* Shares of a round *)

LEMMA RoundedDown ==
  ASSUME NEW m \in Nat, m > 0, NEW a \in Nat
  PROVE  a \div m \in Nat /\ m * (a \div m) <= a /\ a <= m * (a \div m) + (m - 1)
<1> DEFINE q == a \div m
           r == a % m
<1>1. q \in Int /\ r \in Int /\ a = m * q + r /\ 0 <= r /\ r < m
  BY DivMod
<1> HIDE DEF q, r
<1>2. q >= 0
  <2> SUFFICES ASSUME q <= -1 PROVE FALSE
    BY <1>1
  <2>1. m * q <= m * (-1)
    BY <1>1
  <2> QED BY <1>1, <2>1
<1>3. m * q \in Int
  BY <1>1
<1>4. q \in Nat /\ m * q <= a /\ a <= m * q + (m - 1)
  BY <1>1, <1>2, <1>3
<1> QED BY <1>4 DEF q

LEMMA RoundTicksNat == RoundTicks \in Nat
  BY FairShareAssumption, SMT DEF RoundTicks

(* Products of two shares of which each is rounded down. *)
LEMMA CrossShares ==
  ASSUME NEW m \in Nat, m > 0, NEW a \in Nat, NEW x \in Nat, NEW b \in Nat, NEW y \in Nat,
         NEW r \in Nat, NEW u \in Nat, NEW v \in Nat,
         m * x <= u * r, v * r <= m * y + (m - 1), a * u = b * v, b > 0
  PROVE  a * x - b * y < b
<1>1. a * (m * x) <= a * (u * r)
  BY SMT
<1>2. b * (v * r) <= b * (m * y + (m - 1))
  BY SMT
<1>3. a * (u * r) = b * (v * r)
  <2>1. a * (u * r) = (a * u) * r /\ b * (v * r) = (b * v) * r
    BY SMT
  <2> QED BY <2>1
<1>4. /\ a * (m * x) = m * (a * x)
      /\ b * (m * y + (m - 1)) = m * (b * y) + b * (m - 1)
      /\ b * (m - 1) = m * b - b
  BY SMT
<1> DEFINE s == a * x
           t == b * y
<1>5. s \in Int /\ t \in Int /\ m * s \in Int /\ m * t \in Int /\ m * b \in Int
  BY SMT
<1>6. m * s <= m * t + (m * b - b)
  <2>1. a * (m * x) <= b * (m * y + (m - 1))
    <3>1. a * (m * x) \in Int /\ a * (u * r) \in Int /\ b * (m * y + (m - 1)) \in Int
      BY SMT
    <3> QED BY <1>1, <1>2, <1>3, <3>1
  <2>2. b * (m * y + (m - 1)) = m * t + (m * b - b)
    <3> HIDE DEF t
    <3> QED BY <1>4, <1>5 DEF t
  <2> QED BY <1>4, <2>1, <2>2
<1> HIDE DEF s, t
<1>7. m * (s - t - b) < 0
  <2>1. m * (s - t - b) = m * s - m * t - m * b
    BY <1>5
  <2> QED BY <1>5, <1>6, <2>1
<1>8. ~(s - t - b >= 0)
  <2> SUFFICES ASSUME s - t - b >= 0 PROVE FALSE
    OBVIOUS
  <2>1. m * (s - t - b) >= 0
    BY <1>5
  <2> QED BY <1>5, <1>7, <2>1
<1>9. s - t < b
  BY <1>5, <1>8
<1> QED BY <1>9 DEF s, t

(* Shares in proportion to any weights: each is its part rounded down, and *)
(* together they fill the round but for less than a tick each.             *)
LEMMA SharesOfWeights ==
  ASSUME NEW D, IsFiniteSet(D), D # {}, NEW w \in [D -> Nat \ {0}]
  PROVE  /\ ProportionalThroughput(w) \in [D -> Nat]
         /\ FillsRound(w, ProportionalThroughput(w))
         /\ Total(w) \in Nat /\ Total(w) > 0
         /\ \A c \in D :
              /\ Total(w) * ProportionalThroughput(w)[c] <= w[c] * RoundTicks
              /\ w[c] * RoundTicks <=
                   Total(w) * ProportionalThroughput(w)[c] + (Total(w) - 1)
<1> DEFINE q == ProportionalThroughput(w)
           m == SumFunctionOnSet(w, D)
           r == RoundTicks
<1>1. DOMAIN w = D /\ DOMAIN q = D /\ Total(w) = m
  BY DEF ProportionalThroughput, Total, SumFunction
<1>2. r \in Nat
  BY RoundTicksNat
<1>3. m \in Nat /\ m > 0
  <2>1. PICK c \in D : TRUE
    OBVIOUS
  <2>2. \A x \in D : w[x] \in Nat
    OBVIOUS
  <2>3. SumFunctionOnSet(w, D) \in Nat /\ w[c] <= SumFunctionOnSet(w, D)
    BY <2>1, <2>2, PartOfSum
  <2>4. w[c] \in Nat \ {0}
    BY <2>1
  <2> QED BY <2>3, <2>4
<1>4. \A c \in D : q[c] = (w[c] * r) \div m
  BY DEF ProportionalThroughput, SumFunction
<1> HIDE DEF q, m, r
<1>5. ASSUME NEW c \in D
      PROVE  /\ q[c] \in Nat /\ w[c] \in Nat /\ m * q[c] <= w[c] * r
             /\ w[c] * r <= m * q[c] + (m - 1)
  <2>1. w[c] \in Nat
    OBVIOUS
  <2>2. w[c] * r \in Nat
    BY <1>2, <2>1, SMT
  <2>3. q[c] = (w[c] * r) \div m
    BY <1>4
  <2> QED BY <1>3, <2>1, <2>2, <2>3, RoundedDown
<1>6. q \in [D -> Nat]
  <2>1. q = [c \in D |-> q[c]]
    BY <1>1 DEF q, ProportionalThroughput
  <2> QED BY <1>5, <2>1
<1> DEFINE s == SumFunctionOnSet(q, D)
           n == Cardinality(D)
<1>7. m * s <= m * r /\ m * r <= m * s + n * (m - 1)
  <2>1. \A c \in D : /\ w[c] \in Nat /\ q[c] \in Nat
                     /\ m * q[c] <= w[c] * r /\ w[c] * r <= m * q[c] + (m - 1)
    BY <1>5
  <2>2. /\ m * SumFunctionOnSet(q, D) <= SumFunctionOnSet(w, D) * r
        /\ SumFunctionOnSet(w, D) * r
             <= m * SumFunctionOnSet(q, D) + Cardinality(D) * (m - 1)
    BY <1>2, <1>3, <2>1, SumOfShares
  <2> QED BY <2>2 DEF m
<1>8. s \in Int
  <2>1. \A c \in D : q[c] \in Int
    BY <1>5
  <2> QED BY <2>1, SumOfInts
<1>9. n \in Nat /\ n > 0
  BY FS_CardinalityType, FS_EmptySet
<1>10. Total(q) = s
  BY <1>1 DEF Total, SumFunction
<1> HIDE DEF s, n
<1>11. s <= r
  <2> SUFFICES ASSUME s - r >= 1 PROVE FALSE
    BY <1>2, <1>8
  <2>1. m * (s - r) >= m
    BY <1>2, <1>3, <1>8
  <2>2. m * (s - r) = m * s - m * r /\ m * s \in Int /\ m * r \in Int
    BY <1>2, <1>3, <1>8
  <2> QED BY <1>3, <1>7, <2>1, <2>2
<1>12. s > r - n
  <2> SUFFICES ASSUME s + n - r <= 0 PROVE FALSE
    BY <1>2, <1>8, <1>9
  <2>1. m * (s + n - r) <= 0
    BY <1>2, <1>3, <1>8, <1>9
  <2>2. /\ m * (s + n - r) = m * s + m * n - m * r
        /\ n * (m - 1) = m * n - n
        /\ m * s \in Int /\ m * r \in Int /\ m * n \in Int
    BY <1>2, <1>3, <1>8, <1>9
  <2> QED BY <1>7, <1>9, <2>1, <2>2
<1>13. FillsRound(w, q)
  BY <1>1, <1>10, <1>11, <1>12 DEF FillsRound, r, n
<1>14. Total(w) \in Nat /\ Total(w) > 0
  BY <1>1, <1>3
<1>15. \A c \in D : Total(w) * q[c] <= w[c] * r /\ w[c] * r <= Total(w) * q[c] + (Total(w) - 1)
  BY <1>1, <1>5
<1> QED BY <1>6, <1>13, <1>14, <1>15 DEF q, r


(* kEqualTime: the quanta are times that fill the round.                   *)
THEOREM EqualTimeFair ==
  ASSUME NEW D, IsFiniteSet(D), D # {}, NEW thr \in [D -> Nat \ {0}]
  PROVE  EqualTime(thr) \in [D -> Nat] /\ FillsRound(thr, EqualTime(thr))
<1> DEFINE n == Cardinality(D)
           r == RoundTicks
           k == r \div n
           q == EqualTime(thr)
<1>1. n \in Nat /\ n > 0 /\ r \in Nat
  BY FS_CardinalityType, FS_EmptySet, RoundTicksNat
<1>2. DOMAIN thr = D /\ DOMAIN q = D /\ \A c \in D : q[c] = k
  BY DEF EqualTime
<1>3. q = [c \in D |-> k]
  BY DEF EqualTime
<1> HIDE DEF n, r
<1>4. k \in Nat /\ n * k <= r /\ r <= n * k + (n - 1)
  BY <1>1, RoundedDown
<1> HIDE DEF k, q
<1>5. SumFunctionOnSet(q, D) = n * k
  BY <1>2, <1>4, SumOfConstant DEF n
<1>6. Total(q) = n * k
  BY <1>2, <1>5 DEF Total, SumFunction
<1>7. n * k \in Nat
  BY <1>1, <1>4, SMT
<1>8. n * k <= r /\ n * k > r - n
  BY <1>1, <1>4, <1>7
<1>9. FillsRound(thr, q)
  BY <1>2, <1>6, <1>8 DEF FillsRound, r, n
<1>10. q \in [D -> Nat]
  BY <1>3, <1>4
<1> QED BY <1>9, <1>10 DEF q

(* kProportionalThroughput: the quanta are times that fill the round and   *)
(* are in proportion to the rates.                                         *)
THEOREM ProportionalThroughputFair ==
  ASSUME NEW D, IsFiniteSet(D), D # {}, NEW thr \in [D -> Nat \ {0}]
  PROVE  /\ ProportionalThroughput(thr) \in [D -> Nat]
         /\ FillsRound(thr, ProportionalThroughput(thr))
         /\ InProportion(thr, ProportionalThroughput(thr))
<1> DEFINE q == ProportionalThroughput(thr)
           m == Total(thr)
           r == RoundTicks
<1>1. /\ q \in [D -> Nat] /\ FillsRound(thr, q) /\ m \in Nat /\ m > 0
      /\ \A c \in D : m * q[c] <= thr[c] * r /\ thr[c] * r <= m * q[c] + (m - 1)
  BY SharesOfWeights
<1>2. r \in Nat
  BY RoundTicksNat
<1> HIDE DEF q, m, r
<1>3. ASSUME NEW c \in D, NEW d \in D
      PROVE  thr[d] * q[c] - thr[c] * q[d] < thr[c] + thr[d]
  <2>1. /\ thr[c] \in Nat /\ thr[c] > 0 /\ thr[d] \in Nat /\ thr[d] > 0
        /\ q[c] \in Nat /\ q[d] \in Nat
    BY <1>1
  <2>2. m * q[c] <= thr[c] * r /\ thr[d] * r <= m * q[d] + (m - 1)
    BY <1>1
  <2>3. thr[d] * thr[c] = thr[c] * thr[d]
    BY <2>1, SMT
  <2>4. thr[d] * q[c] - thr[c] * q[d] < thr[c]
    BY <1>1, <1>2, <2>1, <2>2, <2>3, CrossShares
  <2>5. thr[d] * q[c] \in Int /\ thr[c] * q[d] \in Int
    BY <2>1, SMT
  <2> DEFINE x == thr[d] * q[c]
             y == thr[c] * q[d]
  <2> HIDE DEF x, y
  <2>6. x - y < thr[c] /\ x \in Int /\ y \in Int
    BY <2>4, <2>5 DEF x, y
  <2>7. x - y < thr[c] + thr[d]
    BY <2>1, <2>6
  <2> QED BY <2>7 DEF x, y
<1>4. InProportion(thr, q)
  BY <1>3 DEF InProportion
<1> QED BY <1>1, <1>4 DEF q

(* The weights of kEqualThroughput are positive, and inverse to the rates: *)
(* the product of a rate and its weight is the same for all clients.       *)
LEMMA WeightsInverse ==
  ASSUME NEW D, IsFiniteSet(D), NEW thr \in [D -> Nat \ {0}]
  PROVE  /\ InverseWeights(thr) \in [D -> Nat \ {0}]
         /\ \A c \in D : thr[c] * InverseWeights(thr)[c] = Product(thr, D)
<1>1. \A c \in D : InverseWeights(thr)[c] = Product(thr, D \ {c})
  BY DEF InverseWeights, Product
<1>2. InverseWeights(thr) = [c \in D |-> InverseWeights(thr)[c]]
  BY DEF InverseWeights
<1>3. ASSUME NEW c \in D PROVE Product(thr, D \ {c}) \in Nat \ {0}
  <2> DEFINE rest == D \ {c}
  <2>1. IsFiniteSet(rest) /\ \A x \in rest : thr[x] \in Nat \ {0}
    BY FS_Subset
  <2> HIDE DEF rest
  <2>2. Product(thr, rest) \in Nat \ {0}
    BY <2>1, ProductPositive
  <2> QED BY <2>2 DEF rest
<1>4. \A x \in D : thr[x] \in Int
  OBVIOUS
<1>5. \A c \in D : Product(thr, D) = thr[c] * Product(thr, D \ {c})
  BY <1>4, ProductOfInts
<1> QED BY <1>1, <1>2, <1>3, <1>5

(* kEqualThroughput: the quanta are times that fill the round, and every   *)
(* client can get the same amount of data in its own.                      *)
THEOREM EqualThroughputIsFair ==
  ASSUME NEW D, IsFiniteSet(D), D # {}, NEW thr \in [D -> Nat \ {0}]
  PROVE  /\ EqualThroughput(thr) \in [D -> Nat]
         /\ FillsRound(thr, EqualThroughput(thr))
         /\ SameData(thr, EqualThroughput(thr))
<1> DEFINE w == InverseWeights(thr)
           q == ProportionalThroughput(w)
           m == Total(w)
           r == RoundTicks
<1>1. w \in [D -> Nat \ {0}] /\ \A c \in D : thr[c] * w[c] = Product(thr, D)
  BY WeightsInverse
<1>2. EqualThroughput(thr) = q
  BY DEF EqualThroughput
<1> HIDE DEF w
<1>3. /\ q \in [D -> Nat] /\ FillsRound(w, q) /\ m \in Nat /\ m > 0
      /\ \A c \in D : m * q[c] <= w[c] * r /\ w[c] * r <= m * q[c] + (m - 1)
  BY <1>1, SharesOfWeights
<1>4. r \in Nat
  BY RoundTicksNat
<1>5. FillsRound(thr, q)
  <2>1. DOMAIN w = D /\ DOMAIN thr = D
    BY <1>1
  <2> QED BY <1>3, <2>1 DEF FillsRound
<1> HIDE DEF q, m, r
<1>6. ASSUME NEW c \in D, NEW d \in D
      PROVE  thr[c] * q[c] - thr[d] * q[d] < thr[c] + thr[d]
  <2>1. /\ thr[c] \in Nat /\ thr[c] > 0 /\ thr[d] \in Nat /\ thr[d] > 0
        /\ q[c] \in Nat /\ q[d] \in Nat
    BY <1>3
  <2>2. w[c] \in Nat /\ w[d] \in Nat
    BY <1>1
  <2>3. m * q[c] <= w[c] * r /\ w[d] * r <= m * q[d] + (m - 1)
    BY <1>3
  <2>4. thr[c] * w[c] = thr[d] * w[d]
    BY <1>1
  <2>5. thr[c] * q[c] - thr[d] * q[d] < thr[d]
    BY <1>3, <1>4, <2>1, <2>2, <2>3, <2>4, CrossShares
  <2> DEFINE x == thr[c] * q[c]
             y == thr[d] * q[d]
  <2>6. x \in Int /\ y \in Int
    BY <2>1, SMT
  <2>7. x - y < thr[d]
    BY <2>5
  <2> HIDE DEF x, y
  <2>8. x - y < thr[c] + thr[d]
    BY <2>1, <2>6, <2>7
  <2> QED BY <2>8 DEF x, y
<1>7. SameData(thr, q)
  BY <1>6 DEF SameData
<1> QED BY <1>2, <1>3, <1>5, <1>7

-----------------------------------------------------------------------------
(* The theorems about the inputs of the runs *)

(* The kinds of input. *)
LEMMA Kinds ==
  ASSUME NEW i \in Inputs
  PROVE  /\ "left" \in DOMAIN i => i \in [left : AllTimers, right : AllTimers]
         /\ "rates" \in DOMAIN i => i \in [rates : RateMaps]
         /\ "now" \in DOMAIN i => i \in [now : Times, wait : 0..MaxWait]
         /\ "rate" \in DOMAIN i =>
              i \in [seq : 0..1, len : 0..MaxDataLen + 1, rate : Rates]
         /\ "ind" \in DOMAIN i =>
              i \in [rawSeq : 0..1, batchId : 0..1, startSeq : 0..2,
                     ind : -1..MaxSent, k : -1..MaxSent, n : 0..MaxSent]
  BY DEF Inputs

LEMMA InputStays == Spec => [](input \in Inputs)
<1>1. Init => input \in Inputs
  BY DEF Init
<1>2. input \in Inputs /\ [Next]_input => (input \in Inputs)'
  BY DEF Next
<1> QED BY <1>1, <1>2, PTL DEF Spec

(* MonotonicTimer's comparisons, sums and differences are exact. *)
THEOREM TimersExactHolds == Spec => []TimersExact
<1>1. input \in Inputs => TimersExact
  <2> SUFFICES ASSUME input \in Inputs, Has("left")
               PROVE  ExactTimers(input.left, input.right)
    BY DEF TimersExact
  <2>1. input.left \in AllTimers /\ input.right \in AllTimers
    BY Kinds DEF Has
  <2>2. AllTimers \subseteq AnyTimer
    BY DEF AllTimers, AnyTimer
  <2> QED BY <2>1, <2>2, ExactTimersHold
<1> QED BY <1>1, InputStays, PTL

(* MonotonicTimer's operator/= gives a quotient that, multiplied again, is *)
(* short of the time by less than the square of the divisor in ns.         *)
THEOREM QuotientsNearHolds == Spec => []QuotientsNear
<1>1. input \in Inputs => QuotientsNear
  <2> SUFFICES ASSUME input \in Inputs, Has("left"), NEW n \in 1..MaxDivisor
               PROVE  NearQuotient(input.left, n)
    BY DEF QuotientsNear
  <2>1. input.left \in AllTimers
    BY Kinds DEF Has
  <2>2. AllTimers \subseteq [sec : Nat, nsec : 0..Billion - 1]
    BY DEF AllTimers
  <2>3. n \in Nat \ {0}
    OBVIOUS
  <2> QED BY <2>1, <2>2, <2>3, NearQuotientHolds
<1> QED BY <1>1, InputStays, PTL

(* The timed waits end when they should, and the deadline is invalid when  *)
(* it is a full second.                                                    *)
THEOREM DeadlinesExactHolds == Spec => []DeadlinesExact
<1>1. input \in Inputs => DeadlinesExact
  <2> SUFFICES ASSUME input \in Inputs, Has("now")
               PROVE  ExactDeadline(input.now, input.wait)
    BY DEF DeadlinesExact
  <2>1. input.now \in Times /\ input.wait \in 0..MaxWait
    BY Kinds DEF Has
  <2>2. Times \subseteq [sec : Int, usec : 0..Million - 1] /\ input.wait \in Nat
    BY <2>1 DEF Times
  <2> QED BY <2>1, <2>2, ExactDeadlineHolds
<1> QED BY <1>1, InputStays, PTL

(* What SetAthHdr and SetHeader put in is read back, or refused. *)
THEOREM HeadersReadBackHolds == Spec => []HeadersReadBack
<1>1. input \in Inputs => HeadersReadBack
  <2> SUFFICES ASSUME input \in Inputs PROVE HeadersReadBack
    OBVIOUS
  <2>1. ASSUME Has("rate") PROVE DataReadBack(input.seq, input.len, input.rate)
    <3>1. input.rate \in Rates
      BY <2>1, Kinds DEF Has
    <3> QED BY <3>1, DataReadBackHolds
  <2>2. ASSUME Has("ind")
        PROVE  CodeReadBack(input.rawSeq, input.batchId, input.startSeq,
                            input.ind, input.k, input.n)
    <3>1. /\ input.rawSeq \in Nat /\ input.batchId \in Nat /\ input.startSeq \in Nat
          /\ input.ind \in Int /\ input.k \in Int /\ input.n \in Nat
      BY <2>2, Kinds DEF Has
    <3> QED BY <3>1, CodeReadBackHolds
  <2> QED BY <2>1, <2>2 DEF HeadersReadBack
<1> QED BY <1>1, InputStays, PTL

(* What the rates given to the fairness modes are. *)
LEMMA RatesGiven ==
  ASSUME input \in Inputs, Has("rates")
  PROVE  \E D : IsFiniteSet(D) /\ D # {} /\ input.rates \in [D -> Nat \ {0}]
<1>1. input.rates \in RateMaps
  BY Kinds DEF Has
<1>2. PICK D \in (SUBSET Clients) \ {{}} : input.rates \in [D -> RateSet]
  BY <1>1 DEF RateMaps
<1>3. IsFiniteSet(D) /\ D # {}
  <2>1. IsFiniteSet(Clients) /\ D \subseteq Clients /\ D # {}
    BY <1>2, InputAssumption
  <2> QED BY <2>1, FS_Subset
<1>4. input.rates \in [D -> Nat \ {0}]
  BY <1>2, InputAssumption
<1> QED BY <1>3, <1>4

(* In each mode the quanta fill the round, for any number of clients, any  *)
(* positive rates and any round interval.                                  *)
THEOREM RoundFilledHolds == Spec => []RoundFilled
<1>1. input \in Inputs => RoundFilled
  <2> SUFFICES ASSUME input \in Inputs, Has("rates") PROVE RoundFilled
    BY DEF RoundFilled
  <2>1. PICK D : IsFiniteSet(D) /\ D # {} /\ input.rates \in [D -> Nat \ {0}]
    BY RatesGiven
  <2>2. FillsRound(input.rates, EqualTime(input.rates))
    BY <2>1, EqualTimeFair
  <2>3. FillsRound(input.rates, ProportionalThroughput(input.rates))
    BY <2>1, ProportionalThroughputFair
  <2>4. FillsRound(input.rates, EqualThroughput(input.rates))
    BY <2>1, EqualThroughputIsFair
  <2> QED BY <2>2, <2>3, <2>4 DEF RoundFilled
<1> QED BY <1>1, InputStays, PTL

(* In kProportionalThroughput a client twice as fast gets twice the time.  *)
THEOREM ProportionalFairHolds == Spec => []ProportionalFair
<1>1. input \in Inputs => ProportionalFair
  <2> SUFFICES ASSUME input \in Inputs, Has("rates")
               PROVE  InProportion(input.rates, ProportionalThroughput(input.rates))
    BY DEF ProportionalFair
  <2>1. PICK D : IsFiniteSet(D) /\ D # {} /\ input.rates \in [D -> Nat \ {0}]
    BY RatesGiven
  <2> QED BY <2>1, ProportionalThroughputFair
<1> QED BY <1>1, InputStays, PTL

(* In kEqualThroughput every client can get the same amount of data.       *)
THEOREM EqualThroughputFairHolds == Spec => []EqualThroughputFair
<1>1. input \in Inputs => EqualThroughputFair
  <2> SUFFICES ASSUME input \in Inputs, Has("rates")
               PROVE  SameData(input.rates, EqualThroughput(input.rates))
    BY DEF EqualThroughputFair
  <2>1. PICK D : IsFiniteSet(D) /\ D # {} /\ input.rates \in [D -> Nat \ {0}]
    BY RatesGiven
  <2> QED BY <2>1, EqualThroughputIsFair
<1> QED BY <1>1, InputStays, PTL

=============================================================================
