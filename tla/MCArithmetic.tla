----------------------------- MODULE MCArithmetic -----------------------------
(* The computations for every input of a small range: rates of the clients *)
(* of a domain, two timers and a divisor, a time of day and a wait, and    *)
(* what a packet's headers are set to.                                     *)
EXTENDS FairShare, Timers, Headers

CONSTANTS Clients, RateSet, MaxSec, MaxDivisor, MaxWait, MaxSent

ASSUME InputAssumption ==
  /\ IsFiniteSet(Clients) /\ RateSet \subseteq Nat \ {0}
  /\ MaxSec \in Nat /\ MaxDivisor \in Nat /\ MaxWait \in Nat /\ MaxSent \in Nat

VARIABLE input

RateMaps == UNION {[S -> RateSet] : S \in (SUBSET Clients) \ {{}}}
AllTimers == [sec : 0..MaxSec, nsec : 0..Billion - 1]
Times == [sec : 0..MaxSec, usec : 0..Million - 1]

Inputs ==
  [rates : RateMaps]
  \cup [left : AllTimers, right : AllTimers]
  \cup [now : Times, wait : 0..MaxWait]
  \cup [seq : 0..1, len : 0..MaxDataLen + 1, rate : Rates]
  \cup [rawSeq : 0..1, batchId : 0..1, startSeq : 0..2,
        ind : -1..MaxSent, k : -1..MaxSent, n : 0..MaxSent]

Init == input \in Inputs
Next == UNCHANGED input
Spec == Init /\ [][Next]_input

Has(field) == field \in DOMAIN input

(* In each mode the quanta of all the clients together fill the round.     *)
RoundFilled ==
  Has("rates") =>
    /\ FillsRound(input.rates, EqualTime(input.rates))
    /\ FillsRound(input.rates, ProportionalThroughput(input.rates))
    /\ FillsRound(input.rates, EqualThroughput(input.rates))

(* kProportionalThroughput: a client twice as fast as another gets twice   *)
(* its time.                                                               *)
ProportionalFair ==
  Has("rates") => InProportion(input.rates, ProportionalThroughput(input.rates))

(* kEqualThroughput: every client can get the same amount of data in its   *)
(* quantum, whatever its rate.                                             *)
EqualThroughputFair ==
  Has("rates") => SameData(input.rates, EqualThroughput(input.rates))

(* The comparisons, sums and differences of MonotonicTimer are those of    *)
(* the times in nanoseconds.                                               *)
TimersExact == Has("left") => ExactTimers(input.left, input.right)

(* MonotonicTimer's operator/= gives a quotient that, multiplied again, is *)
(* short of the time by less than the square of the divisor in ns.         *)
QuotientsNear ==
  Has("left") => \A n \in 1..MaxDivisor : NearQuotient(input.left, n)

(* The timed waits end when they should, and the deadline is invalid when  *)
(* it is a full second.                                                    *)
DeadlinesExact == Has("now") => ExactDeadline(input.now, input.wait)

(* What SetAthHdr and SetHeader put in, ParseAthHdr, GetRate and           *)
(* ParseHeader read back, or refuse.                                       *)
HeadersReadBack ==
  /\ Has("rate") => DataReadBack(input.seq, input.len, input.rate)
  /\ Has("ind") => CodeReadBack(input.rawSeq, input.batchId, input.startSeq,
                                input.ind, input.k, input.n)

=============================================================================
