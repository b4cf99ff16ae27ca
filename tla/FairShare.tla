------------------------------ MODULE FairShare ------------------------------
(***************************************************************************)
(* The arithmetic of PktScheduler: the three ways ComputeQuantum divides   *)
(* the round interval between the clients of a contention domain, and the  *)
(* time charged for one packet.                                            *)
(*                                                                         *)
(* The program computes quanta and deficit counters as doubles, in         *)
(* microseconds.  Here a time is a whole number of ticks, Ticks of them    *)
(* to the microsecond; a quotient is rounded down to a tick, so it is      *)
(* exact whenever Ticks makes it whole.  A throughput is a whole number    *)
(* of rate units, RateUnits of them to the megabit per second.             *)
(***************************************************************************)
EXTENDS Integers, FiniteSets, Functions

CONSTANTS
  RoundInterval,  (* round_interval_, microseconds                         *)
  Ticks,          (* ticks per microsecond                                 *)
  RateUnits       (* rate units per megabit per second                     *)

ASSUME FairShareAssumption ==
  /\ RoundInterval \in Nat
  /\ Ticks \in Nat \ {0}
  /\ RateUnits \in Nat \ {0}

RoundTicks == RoundInterval * Ticks

(* The time a packet of len bytes is charged: int(len * 8.0 / throughput).  *)
(* The conversion to int drops the fraction of a microsecond.               *)
Duration(len, thr) == Ticks * ((8 * len * RateUnits) \div thr)

(* thr maps each client of the domain to its throughput. *)

(* Mutant: every client gets the whole round. *)
WholeRound(thr) == [c \in DOMAIN thr |-> RoundTicks]

EqualTime(thr) ==
  [c \in DOMAIN thr |-> RoundTicks \div Cardinality(DOMAIN thr)]

(* Mutant: the rates are not looked at. *)
ShareOfClients(thr) == EqualTime(thr)

ProportionalThroughput(thr) ==
  [c \in DOMAIN thr |-> (thr[c] * RoundTicks) \div SumFunction(thr)]

(* Mutant: the weights of the slow and the fast are not inverted. *)
PlainWeights(thr) == thr

(* The weights 1/t over a common denominator, the product of all rates. *)
InverseWeights(thr) ==
  [c \in DOMAIN thr |->
     FoldFunctionOnSet(LAMBDA x, y : x * y, 1, thr, DOMAIN thr \ {c})]

EqualThroughput(thr) ==
  ProportionalThroughput(InverseWeights(thr))

-----------------------------------------------------------------------------
(* What the three modes promise of the quanta for the rates thr *)

Total(f) == SumFunction(f)

(* The quanta of a round fill the round interval, but for less than a tick *)
(* per client, in every mode.                                              *)
FillsRound(thr, q) ==
  /\ Total(q) <= RoundTicks
  /\ Total(q) > RoundTicks - Cardinality(DOMAIN thr)

(* A client that is k times as fast as another gets k times its time.      *)
(* Rounding a quantum down moves a product of it and a rate by less than   *)
(* that rate.                                                              *)
InProportion(thr, q) ==
  \A c, d \in DOMAIN thr : thr[d] * q[c] - thr[c] * q[d] < thr[c] + thr[d]

(* In its quantum each client can get the same amount of data.             *)
SameData(thr, q) ==
  \A c, d \in DOMAIN thr : thr[c] * q[c] - thr[d] * q[d] < thr[c] + thr[d]

=============================================================================
