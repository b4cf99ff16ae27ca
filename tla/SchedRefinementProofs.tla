------------------------ MODULE SchedRefinementProofs ------------------------
(***************************************************************************)
(* Proofs about the rounds of PktScheduler, for any clients, forwarders,   *)
(* rates and quanta: what a round gives a client, and that the scheduler   *)
(* implements RoundRobin.                                                  *)
(***************************************************************************)
EXTENDS SchedRefinement, PktSchedulerProofs, FoldProofs

-----------------------------------------------------------------------------
(* The airtime of packets *)

Airtime(s, thr) == SumFunction([i \in 1..Len(s) |-> Duration(s[i].len, thr)])

(* Functions that agree on a set have the same sum over it. *)
LEMMA SumSame ==
  ASSUME NEW S, IsFiniteSet(S), NEW f, NEW g, \A x \in S : f[x] \in Int /\ f[x] = g[x]
  PROVE  SumFunctionOnSet(f, S) = SumFunctionOnSet(g, S)
<1> DEFINE T == {t \in SUBSET S : SumFunctionOnSet(f, t) = SumFunctionOnSet(g, t)}
<1>1. (\A x \in S : f[x] \in Int) /\ (\A x \in S : g[x] \in Int)
  OBVIOUS
<1>2. {} \in T
  BY OfNothing
<1>3. ASSUME NEW t \in SUBSET S, NEW x \in t, t \ {x} \in T PROVE t \in T
  <2>1. SumFunctionOnSet(f, t) = f[x] + SumFunctionOnSet(f, t \ {x})
    BY <1>1, SumOfSubset
  <2>2. SumFunctionOnSet(g, t) = g[x] + SumFunctionOnSet(g, t \ {x})
    BY <1>1, SumOfSubset
  <2>3. f[x] = g[x] /\ SumFunctionOnSet(f, t \ {x}) = SumFunctionOnSet(g, t \ {x})
    BY <1>3
  <2> QED BY <2>1, <2>2, <2>3
<1>4. \A t \in SUBSET S : \A x \in t : t \ {x} \in T => t \in T
  BY <1>3
<1>5. S \in T
  <2> HIDE DEF T
  <2> QED BY <1>2, <1>4, SetGrows
<1> QED BY <1>5

(* No packets take no time. *)
LEMMA AirtimeOfNothing == ASSUME NEW thr PROVE Airtime(<<>>, thr) = 0
<1>1. 1..Len(<<>>) = {}
  OBVIOUS
<1>2. Airtime(<<>>, thr) =
        SumFunctionOnSet([i \in 1..Len(<<>>) |-> Duration(<<>>[i].len, thr)], 1..Len(<<>>))
  BY DEF Airtime, SumFunction
<1> QED BY <1>1, <1>2, OfNothing

(* One packet more takes its duration more. *)
LEMMA AirtimeAppend ==
  ASSUME NEW s \in Seq(Packet), NEW p \in Packet, NEW thr \in Nat, thr > 0
  PROVE  /\ Airtime(s, thr) \in Nat
         /\ Airtime(Append(s, p), thr) = Airtime(s, thr) + Duration(p.len, thr)
<1> DEFINE n == Len(s)
           g == [i \in 1..n |-> Duration(s[i].len, thr)]
           t == Append(s, p)
           h == [i \in 1..Len(t) |-> Duration(t[i].len, thr)]
<1>2. n \in Nat /\ Len(t) = n + 1 /\ t[n + 1] = p /\ \A i \in 1..n : t[i] = s[i]
  OBVIOUS
<1>3. \A q \in Packet : Duration(q.len, thr) \in Nat
  BY LenNat, DurationNat DEF Packet
<1>4. \A i \in 1..n : s[i] \in Packet
  OBVIOUS
<1> HIDE DEF t, n
<1>5. \A i \in 1..n : g[i] \in Nat /\ g[i] = h[i]
  BY <1>2, <1>3, <1>4
<1>6. h[n + 1] = Duration(p.len, thr) /\ h[n + 1] \in Nat
  BY <1>2, <1>3
<1>7. Airtime(s, thr) = SumFunctionOnSet(g, 1..n)
  BY DEF Airtime, SumFunction, n
<1>8. Airtime(t, thr) = SumFunctionOnSet(h, 1..n + 1)
  BY <1>2 DEF Airtime, SumFunction
<1> HIDE DEF g, h
<1>9. IsFiniteSet(1..n) /\ IsFiniteSet(1..n + 1)
  BY <1>2, FS_Interval
<1>10. SumFunctionOnSet(g, 1..n) \in Nat
  BY <1>5, <1>9, SumNat
<1>11. SumFunctionOnSet(g, 1..n) = SumFunctionOnSet(h, 1..n)
  <2>1. \A i \in 1..n : g[i] \in Int /\ g[i] = h[i]
    BY <1>5
  <2> QED BY <1>9, <2>1, SumSame
<1>12. SumFunctionOnSet(h, 1..n + 1) = h[n + 1] + SumFunctionOnSet(h, 1..n)
  <2>1. \A i \in 1..n + 1 : h[i] \in Int
    BY <1>2, <1>5, <1>6
  <2>2. n + 1 \in 1..n + 1 /\ (1..n + 1) \ {n + 1} = 1..n
    BY <1>2
  <2>3. SumFunctionOnSet(h, 1..n + 1) =
          h[n + 1] + SumFunctionOnSet(h, (1..n + 1) \ {n + 1})
    <3> DEFINE D == 1..n + 1
    <3>1. IsFiniteSet(D) /\ (\A i \in D : h[i] \in Int) /\ n + 1 \in D
      BY <1>9, <2>1, <2>2
    <3> HIDE DEF D
    <3>2. SumFunctionOnSet(h, D) = h[n + 1] + SumFunctionOnSet(h, D \ {n + 1})
      BY <3>1, SumOfInts
    <3> QED BY <3>2 DEF D
  <2> QED BY <2>2, <2>3
<1>13. Airtime(t, thr) = Airtime(s, thr) + Duration(p.len, thr)
  BY <1>6, <1>7, <1>8, <1>10, <1>11, <1>12
<1> QED BY <1>7, <1>10, <1>13 DEF t


(* Packets of two sequences, one after the other. *)
LEMMA HeadMoves ==
  ASSUME NEW S, NEW s \in Seq(S), NEW q \in Seq(S), q # <<>>
  PROVE  Append(s, Head(q)) \o Tail(q) = s \o q
<1>1. /\ Head(q) \in S /\ Head(q) = q[1] /\ Tail(q) \in Seq(S) /\ Len(Tail(q)) = Len(q) - 1
      /\ \A i \in 1..Len(q) - 1 : Tail(q)[i] = q[i + 1]
  BY HeadTailProperties
<1> DEFINE a == Append(s, Head(q))
           u == a \o Tail(q)
           v == s \o q
<1>2. Len(s) \in Nat /\ Len(q) \in Nat \ {0}
  BY EmptySeq, LenProperties
<1>3. /\ a \in Seq(S) /\ Len(a) = Len(s) + 1 /\ a[Len(s) + 1] = q[1]
      /\ \A i \in 1..Len(s) : a[i] = s[i]
  BY <1>1, AppendProperties
<1> HIDE DEF a
<1>4. /\ u \in Seq(S) /\ Len(u) = Len(a) + Len(Tail(q))
      /\ \A i \in 1..Len(a) + Len(Tail(q)) :
           u[i] = IF i <= Len(a) THEN a[i] ELSE Tail(q)[i - Len(a)]
  BY <1>1, <1>3, ConcatProperties
<1>5. /\ v \in Seq(S) /\ Len(v) = Len(s) + Len(q)
      /\ \A i \in 1..Len(s) + Len(q) : v[i] = IF i <= Len(s) THEN s[i] ELSE q[i - Len(s)]
  BY ConcatProperties
<1> HIDE DEF u, v
<1>6. Len(u) = Len(v)
  BY <1>1, <1>2, <1>3, <1>4, <1>5
<1>7. ASSUME NEW i \in 1..Len(u) PROVE u[i] = v[i]
  <2>1. i \in Int /\ 1 <= i /\ i <= Len(s) + Len(q)
    BY <1>2, <1>5, <1>6
  <2>2. CASE i <= Len(s)
    BY <1>1, <1>2, <1>3, <1>4, <1>5, <2>1, <2>2
  <2>3. CASE i = Len(s) + 1
    <3>1. u[i] = q[1]
      BY <1>1, <1>2, <1>3, <1>4, <2>1, <2>3
    <3>2. v[i] = q[1]
      BY <1>2, <1>5, <2>1, <2>3
    <3> QED BY <3>1, <3>2
  <2>4. CASE i > Len(s) + 1
    <3> DEFINE j == i - Len(s) - 1
    <3>1. j \in 1..Len(q) - 1 /\ i - Len(a) = j /\ j + 1 = i - Len(s) /\ ~(i <= Len(a))
      BY <1>2, <1>3, <2>1, <2>4
    <3>2. u[i] = Tail(q)[j]
      BY <1>4, <1>6, <3>1
    <3>3. v[i] = q[j + 1]
      BY <1>2, <1>5, <1>6, <2>4, <3>1
    <3> HIDE DEF j
    <3> QED BY <1>1, <3>1, <3>2, <3>3
  <2> QED BY <1>2, <2>1, <2>2, <2>3, <2>4
<1> QED BY <1>4, <1>5, <1>6, <1>7, SeqEqual DEF u, v

LEMMA TailGrows ==
  ASSUME NEW S, NEW s \in Seq(S), NEW q \in Seq(S), NEW p \in S
  PROVE  s \o Append(q, p) = Append(s \o q, p)
<1>1. s \o q \in Seq(S) /\ <<p>> \in Seq(S)
  BY ConcatProperties
<1>2. Append(s \o q, p) = (s \o q) \o <<p>>
  BY <1>1, AppendIsConcat
<1>3. Append(q, p) = q \o <<p>>
  BY AppendIsConcat
<1> QED BY <1>1, <1>2, <1>3, ConcatAssociative

(* The two parts again. *)
LEMMA Parts ==
  ASSUME NEW S, NEW s \in Seq(S), NEW q \in Seq(S)
  PROVE  /\ Len(s) \in Nat /\ Len(q) \in Nat /\ Len(s \o q) = Len(s) + Len(q)
         /\ SubSeq(s \o q, 1, Len(s)) = s
         /\ SubSeq(s \o q, Len(s) + 1, Len(s \o q)) = q
         /\ q # <<>> => (s \o q)[Len(s) + 1] = Head(q)
<1> DEFINE u == s \o q
           n == Len(s)
           m == Len(q)
<1>1. n \in Nat /\ m \in Nat
  BY LenProperties
<1>2. /\ u \in Seq(S) /\ Len(u) = n + m
      /\ \A i \in 1..n + m : u[i] = IF i <= n THEN s[i] ELSE q[i - n]
  BY ConcatProperties
<1>3. \A i \in 1..n + m : u[i] \in S
  BY <1>2, ElementOfSeq
<1> HIDE DEF u
<1>4. SubSeq(u, 1, n) = s
  <2> DEFINE v == SubSeq(u, 1, n)
  <2>0. \A i \in 1..n : i \in 1..n + m /\ i <= n /\ 1 + i - 1 = i
    BY <1>1
  <2>1. /\ v \in Seq(S) /\ Len(v) = IF 1 <= n THEN n - 1 + 1 ELSE 0
        /\ \A i \in 1..n - 1 + 1 : v[i] = u[1 + i - 1]
    BY <1>1, <1>3, <2>0, SubSeqProperties
  <2> HIDE DEF v
  <2>2. Len(v) = n
    BY <1>1, <2>1
  <2>3. \A i \in 1..Len(v) : v[i] = s[i]
    BY <1>1, <1>2, <2>0, <2>1, <2>2
  <2> QED BY <2>1, <2>2, <2>3, SeqEqual DEF v
<1>5. SubSeq(u, n + 1, n + m) = q
  <2> DEFINE v == SubSeq(u, n + 1, n + m)
  <2>0. \A i \in n + 1..n + m : i \in 1..n + m
    BY <1>1
  <2>1. /\ v \in Seq(S) /\ Len(v) = IF n + 1 <= n + m THEN (n + m) - (n + 1) + 1 ELSE 0
        /\ \A i \in 1..(n + m) - (n + 1) + 1 : v[i] = u[(n + 1) + i - 1]
    BY <1>1, <1>3, <2>0, SubSeqProperties
  <2> HIDE DEF v
  <2>2. Len(v) = m /\ (n + m) - (n + 1) + 1 = m
    BY <1>1, <2>1
  <2>3. ASSUME NEW i \in 1..m PROVE v[i] = q[i]
    <3> DEFINE k == (n + 1) + i - 1
    <3>1. k \in 1..n + m /\ ~(k <= n) /\ k - n = i
      BY <1>1
    <3>2. v[i] = u[k]
      BY <2>1, <2>2
    <3> HIDE DEF k
    <3>3. u[k] = q[k - n]
      BY <1>2, <3>1
    <3> QED BY <3>1, <3>2, <3>3
  <2> QED BY <2>1, <2>2, <2>3, SeqEqual DEF v
<1>6. q # <<>> => u[n + 1] = Head(q)
  <2> SUFFICES ASSUME q # <<>> PROVE u[n + 1] = Head(q)
    OBVIOUS
  <2>1. m \in Nat \ {0} /\ Head(q) = q[1]
    BY EmptySeq
  <2>2. n + 1 \in 1..n + m /\ ~(n + 1 <= n) /\ n + 1 - n = 1
    BY <1>1, <2>1
  <2> QED BY <1>2, <2>1, <2>2
<1> QED BY <1>1, <1>2, <1>4, <1>5, <1>6 DEF u

-----------------------------------------------------------------------------
(* What a round gives *)

(* While a forwarder has the lock, only its own steps touch its round.     *)
LEMMA HolderKeeps ==
  ASSUME IInv, Next, NEW f \in Forwarders, owner' = f
  PROVE  \/ StartRound(f)
         \/ Pop(f)
         \/ /\ owner = f /\ cur'[f] = cur[f] /\ pkts'[f] = pkts[f]
            /\ UNCHANGED <<counter, quantum, throughput>>
<1> DEFINE Keeps == /\ owner = f /\ cur'[f] = cur[f] /\ pkts'[f] = pkts[f]
                    /\ UNCHANGED <<counter, quantum, throughput>>
<1>0. /\ LockOK /\ NoThread \notin Forwarders /\ ComputeRoutes \notin Forwarders
      /\ cur \in [Forwarders -> Clients \cup {NoClient}]
      /\ pkts \in [Forwarders -> Seq(Packet)]
  BY SchedulerAssumption DEF IInv, TypeOK
<1>1. ASSUME NEW c \in Clients, NEW len \in Lens, Enqueue(c, len) PROVE Keeps
  BY <1>1 DEF Enqueue, fwdVars, statsVars
<1>2. ASSUME EnqueueAppend PROVE Keeps
  BY <1>2 DEF EnqueueAppend, statsVars
<1>3. ASSUME NEW g \in Forwarders, WaitFill(g) \/ SpuriousWakeup(g) \/ SkipClient(g) \/ Peek(g)
      PROVE  Keeps
  BY <1>3 DEF WaitFill, SpuriousWakeup, SkipClient, Peek, statsVars
<1>4. ASSUME NEW g \in Forwarders, RemoveFromList(g) PROVE Keeps
  <2>1. owner = f /\ pc[g] \in {"remove", "woken"}
    BY <1>4 DEF RemoveFromList
  <2>2. f # g
    BY <1>0, <2>1 DEF LockOK, Holding
  <2> QED BY <1>0, <1>4, <2>1, <2>2 DEF RemoveFromList, statsVars
<1>5. ASSUME NEW g \in Forwarders, StartRound(g) PROVE StartRound(f)
  BY <1>5 DEF StartRound
<1>6. ASSUME NEW g \in Forwarders, Pop(g) PROVE Pop(f)
  <2>1. owner = f /\ pc[g] = "pop"
    BY <1>6 DEF Pop
  <2>2. f = g
    BY <1>0, <2>1 DEF LockOK, Holding
  <2> QED BY <1>6, <2>2
<1>7. ASSUME NEW g \in Forwarders, FinishEmpty(g) \/ FinishBacklogged(g) PROVE FALSE
  BY <1>0, <1>7 DEF FinishEmpty, FinishBacklogged
<1>8. ASSUME NEW g \in Forwarders, Send(g) PROVE Keeps
  <2>1. owner = f /\ pc[g] = "send"
    BY <1>8 DEF Send
  <2>2. f # g
    BY <1>0, <2>1 DEF LockOK, Holding
  <2> QED BY <1>0, <1>8, <2>1, <2>2 DEF Send, statsVars
<1>9. ASSUME (\E thr \in ThroughputMaps : BeginCompute(thr)) \/ EndCompute PROVE FALSE
  BY <1>0, <1>9 DEF BeginCompute, EndCompute
<1>10. ASSUME NEW c \in Clients, ClearQueue(c) PROVE Keeps
  BY <1>10 DEF ClearQueue, fwdVars, statsVars
<1> QED BY <1>1, <1>2, <1>3, <1>4, <1>5, <1>6, <1>7, <1>8, <1>9, <1>10
        DEF Next, ReadTunStep, ForwarderStep, ComputeRoutesStep

(* A longer packet takes no less time. *)
LEMMA DurationGrows ==
  ASSUME NEW a \in Nat, NEW b \in Nat, a <= b, NEW thr \in Nat, thr > 0
  PROVE  Duration(a, thr) <= Duration(b, thr)
<1> DEFINE x == 8 * a * RateUnits
           y == 8 * b * RateUnits
<1>1. RateUnits \in Nat /\ Ticks \in Nat
  BY FairShareAssumption
<1>2. x \in Nat /\ y \in Nat /\ x <= y
  <2>1. 8 * a \in Nat /\ 8 * b \in Nat /\ 8 * a <= 8 * b
    OBVIOUS
  <2>2. \A i, j \in Nat : i <= j => i * RateUnits <= j * RateUnits
    BY <1>1, SMT
  <2> QED BY <1>1, <2>1, <2>2, MulNat
<1>3. \A i, j \in Nat : i <= j => i \div thr <= j \div thr
  BY SMT
<1> HIDE DEF x, y
<1>4. x \div thr \in Nat /\ y \div thr \in Nat /\ x \div thr <= y \div thr
  BY <1>2, <1>3, DivNat
<1>5. \A i, j \in Nat : i <= j => Ticks * i <= Ticks * j
  BY <1>1, SMT
<1>6. Ticks * (x \div thr) <= Ticks * (y \div thr)
  BY <1>4, <1>5
<1> QED BY <1>6 DEF Duration, x, y

(* The rates and times of the client of the round. *)
LEMMA HolderTypes ==
  ASSUME IInv, NEW f \in Forwarders, owner = f
  PROVE  /\ cur[f] \in served /\ cur[f] \in Clients
         /\ throughput[cur[f]] \in Nat /\ throughput[cur[f]] > 0
         /\ quantum[cur[f]] \in Nat /\ counter[cur[f]] \in Nat
         /\ pkts[f] \in Seq(Packet) /\ queues[cur[f]] \in Seq(Packet)
         /\ BatchTime(f) = Airtime(pkts[f], throughput[cur[f]])
<1>1. TypeOK /\ LockOK /\ HandOK
  BY DEF IInv
<1>2. cur[f] \in served /\ served \subseteq Clients
  BY <1>1 DEF LockOK, HandOK, TypeOK
<1>3. BatchTime(f) = Airtime(pkts[f], throughput[cur[f]])
  BY DEF BatchTime, Airtime
<1> QED BY <1>1, <1>2, <1>3 DEF TypeOK

LEMMA BudgetStep ==
  ASSUME \E m \in Lens : \A l \in Lens : l <= m, IInv, RoundBudget, [Next]_vars
  PROVE  RoundBudget'
<1> SUFFICES ASSUME NEW f \in Forwarders, owner' = f, Given(f)' > quantum'[cur'[f]]
             PROVE  Given(f)' < quantum'[cur'[f]] + LongestTime(throughput[cur[f]])'
  BY DEF RoundBudget
<1> DEFINE longest == CHOOSE m \in Lens : \A l \in Lens : l <= m
<1>1. longest \in Nat /\ \A l \in Lens : l \in Nat /\ l <= longest
  <2>1. longest \in Lens /\ \A l \in Lens : l <= longest
    OBVIOUS
  <2> QED BY <2>1, SchedulerAssumption
<1>2. \A thr : LongestTime(thr) = Duration(longest, thr)
  BY DEF LongestTime
<1> HIDE DEF longest
<1>3. ASSUME owner = f, cur'[f] = cur[f], quantum' = quantum, throughput' = throughput,
             Given(f)' = Given(f)
      PROVE  Given(f)' < quantum'[cur'[f]] + LongestTime(throughput[cur[f]])'
  <2>1. LongestTime(throughput[cur[f]])' = LongestTime(throughput[cur[f]])
    BY <1>3 DEF LongestTime
  <2> QED BY <1>3, <2>1 DEF RoundBudget
<1>4. CASE UNCHANGED vars
  <2>1. /\ owner' = owner /\ pkts' = pkts /\ cur' = cur /\ counter' = counter
        /\ quantum' = quantum /\ throughput' = throughput
    BY <1>4 DEF vars, fwdVars, statsVars
  <2>2. Given(f)' = Given(f)
    BY <2>1 DEF Given, BatchTime
  <2> QED BY <1>3, <2>1, <2>2
<1>5. CASE Next /\ StartRound(f)
  <2> DEFINE c == cur[f]
             thr == throughput[c]
  <2>1. /\ c \in served /\ c \in Clients /\ owner = NoThread /\ CreditCarried
        /\ pkts'[f] = <<>> /\ cur' = cur /\ quantum' = quantum /\ throughput' = throughput
        /\ counter'[c] = counter[c] + quantum[c]
        /\ counter[c] \in Nat /\ quantum[c] \in Nat
        /\ thr \in Nat /\ thr > 0 /\ queues[c] \in Seq(Packet)
    BY <1>5 DEF StartRound, LockIsFree, RoundTime, IInv, TypeOK
  <2>2. Given(f)' = counter[c] + quantum[c]
    <3>1. BatchTime(f)' = Airtime(<<>>, thr)
      BY <2>1 DEF BatchTime, Airtime
    <3>2. BatchTime(f)' = 0
      BY <3>1, AirtimeOfNothing
    <3>3. Given(f)' = BatchTime(f)' + counter'[c]
      BY <2>1 DEF Given
    <3> HIDE DEF c
    <3> QED BY <2>1, <3>2, <3>3
  <2>3. counter[c] < Duration(longest, thr)
    <3>1. counter[c] # 0
      <4>1. counter[c] + quantum[c] > quantum[c]
        BY <2>1, <2>2
      <4> HIDE DEF c
      <4> QED BY <2>1, <4>1
    <3>2. ShortOfTime(c)
      BY <2>1, <3>1, SchedulerAssumption DEF CreditCarried
    <3> DEFINE len == Head(queues[c]).len
    <3>3. queues[c] # <<>> /\ ~(counter[c] >= Duration(len, thr))
      BY <3>2 DEF ShortOfTime, Affords
    <3>4. len \in Lens
      <4>1. Head(queues[c]) \in Packet
        <5> HIDE DEF c
        <5> QED BY <2>1, <3>3
      <4> QED BY <4>1 DEF Packet
    <3> HIDE DEF len, c, thr
    <3>5. len \in Nat /\ len <= longest
      BY <1>1, <3>4
    <3>6. /\ Duration(len, thr) \in Nat /\ Duration(longest, thr) \in Nat
          /\ Duration(len, thr) <= Duration(longest, thr)
      BY <1>1, <2>1, <3>5, DurationNat, DurationGrows
    <3> QED BY <2>1, <3>3, <3>6
  <2>4. LongestTime(throughput[cur[f]])' = Duration(longest, thr)
    <3>1. LongestTime(throughput[cur[f]])' = LongestTime(thr)
      BY <2>1 DEF LongestTime
    <3> QED BY <1>2, <3>1
  <2>5. Duration(longest, thr) \in Nat
    <3> HIDE DEF thr
    <3> QED BY <1>1, <2>1, DurationNat
  <2>6. quantum'[cur'[f]] = quantum[c]
    BY <2>1
  <2> HIDE DEF c, thr
  <2> QED BY <2>1, <2>2, <2>3, <2>4, <2>5, <2>6
<1>6. CASE Next /\ Pop(f)
  <2> DEFINE c == cur[f]
             thr == throughput[c]
             p == Head(queues[c])
             d == Duration(p.len, thr)
  <2>0. owner = f
    BY <1>6 DEF Pop
  <2>1. /\ c \in Clients /\ thr \in Nat /\ thr > 0 /\ counter[c] \in Nat
        /\ pkts[f] \in Seq(Packet) /\ queues[c] \in Seq(Packet)
        /\ BatchTime(f) = Airtime(pkts[f], thr)
    BY <2>0, HolderTypes
  <2>2. /\ pkts'[f] = Append(pkts[f], p) /\ cur' = cur /\ quantum' = quantum
        /\ throughput' = throughput /\ counter'[c] = counter[c] - Duration(top[f], thr)
        /\ queues[c] # <<>> /\ p.len = top[f]
    <3>1. pkts'[f] = Append(pkts[f], p)
      BY <1>6 DEF Pop, IInv, TypeOK
    <3>2. cur' = cur /\ quantum' = quantum /\ throughput' = throughput
      BY <1>6 DEF Pop
    <3>3. counter'[c] = counter[c] - Duration(top[f], thr)
      BY <1>6, <2>1 DEF Pop, Charged, IInv, TypeOK
    <3>4. queues[c] # <<>> /\ p.len = top[f]
      BY <1>6 DEF Pop, IInv, PopIsSafe
    <3> HIDE DEF c, thr, p
    <3> QED BY <3>1, <3>2, <3>3, <3>4
  <2>3. p \in Packet
    BY <2>1, <2>2
  <2>4. d \in Nat
    <3>1. p.len \in Nat
      BY <2>3, LenNat DEF Packet
    <3> HIDE DEF thr, p
    <3> QED BY <2>1, <3>1, DurationNat
  <2>5. /\ Airtime(pkts[f], thr) \in Nat
        /\ Airtime(Append(pkts[f], p), thr) = Airtime(pkts[f], thr) + d
    <3> HIDE DEF thr, p
    <3> QED BY <2>1, <2>3, AirtimeAppend
  <2>6. BatchTime(f)' = Airtime(Append(pkts[f], p), thr)
    BY <2>2 DEF BatchTime, Airtime
  <2>7. Given(f)' = BatchTime(f)' + (counter[c] - d)
    BY <2>2 DEF Given
  <2>8. Given(f) = BatchTime(f) + counter[c]
    BY DEF Given
  <2>9. Given(f)' = Given(f)
    <3> HIDE DEF c, thr, p, d
    <3> QED BY <2>1, <2>4, <2>5, <2>6, <2>7, <2>8
  <2> QED BY <1>3, <2>0, <2>2, <2>9
<1>7. CASE /\ owner = f /\ cur'[f] = cur[f] /\ pkts'[f] = pkts[f]
           /\ UNCHANGED <<counter, quantum, throughput>>
  <2>1. Given(f)' = Given(f)
    BY <1>7 DEF Given, BatchTime
  <2> QED BY <1>3, <1>7, <2>1
<1> QED BY <1>4, <1>5, <1>6, <1>7, HolderKeeps

(* No round gives a client more than its quantum and less than a longest   *)
(* packet, for any packet lengths that have a longest.                     *)
THEOREM RoundBudgetHolds ==
  ASSUME \E m \in Lens : \A l \in Lens : l <= m
  PROVE  Spec => []RoundBudget
<1>1. Init => RoundBudget
  BY SchedulerAssumption DEF Init, RoundBudget
<1>2. IInv /\ RoundBudget /\ [Next]_vars => RoundBudget'
  BY BudgetStep
<1> QED BY <1>1, <1>2, Invariance, PTL DEF Spec


-----------------------------------------------------------------------------
(* The refinement: what RoundRobin's variables are *)

(* A client that has no queue has no packets. *)
EmptyWithoutQueue == \A c \in Clients \ hasQueue : queues[c] = <<>>

RInv == IInv /\ EmptyWithoutQueue

BarsWithoutRound ==
  owner \notin Forwarders =>
    \A c \in Clients : /\ QueuesBar[c] = IF c \in toClear THEN <<>> ELSE queues[c]
                       /\ CreditBar[c] = counter[c]

BarsInRound ==
  \A f \in Forwarders : owner = f =>
    /\ toClear = {} /\ QuantaBar = [c \in served |-> quantum[c]]
    /\ \A c \in Clients \ {cur[f]} : QueuesBar[c] = queues[c] /\ CreditBar[c] = counter[c]
    /\ pc[f] \in {"peek", "pop"} =>
         /\ QueuesBar[cur[f]] = pkts[f] \o queues[cur[f]]
         /\ CreditBar[cur[f]] = counter[cur[f]]
              + Airtime(pkts[f], throughput[cur[f]]) - quantum[cur[f]]
    /\ pc[f] = "finish" =>
         /\ QueuesBar[cur[f]] = queues[cur[f]]
         /\ CreditBar[cur[f]] = IF top[f] = 0 THEN 0 ELSE counter[cur[f]]

LEMMA BarsAre == IInv => BarsWithoutRound /\ BarsInRound
<1> SUFFICES ASSUME IInv PROVE BarsWithoutRound /\ BarsInRound
  OBVIOUS
<1>1. ASSUME owner \notin Forwarders, NEW c \in Clients
      PROVE  /\ QueuesBar[c] = IF c \in toClear THEN <<>> ELSE queues[c]
             /\ CreditBar[c] = counter[c]
  <2>1. \A f \in Forwarders : ~InRound(f, c) /\ ~Forfeits(f, c)
    BY <1>1 DEF InRound, Forfeits
  <2> QED BY <2>1 DEF QueuesBar, CreditBar
<1>2. ASSUME NEW f \in Forwarders, owner = f
      PROVE  /\ toClear = {} /\ QuantaBar = [c \in served |-> quantum[c]]
             /\ cur[f] \in Clients
    BY <1>2, HolderTypes, SchedulerAssumption DEF IInv, StatsOK, QuantaBar
<1>3. ASSUME NEW f \in Forwarders, owner = f, NEW c \in Clients \ {cur[f]}
      PROVE  QueuesBar[c] = queues[c] /\ CreditBar[c] = counter[c]
  <2>1. \A g \in Forwarders : ~InRound(g, c) /\ ~Forfeits(g, c)
    BY <1>3 DEF InRound, Forfeits
  <2> QED BY <1>2, <1>3, <2>1 DEF QueuesBar, CreditBar
<1>4. ASSUME NEW f \in Forwarders, owner = f, pc[f] \in {"peek", "pop"}
      PROVE  /\ QueuesBar[cur[f]] = pkts[f] \o queues[cur[f]]
             /\ CreditBar[cur[f]] = counter[cur[f]]
                  + Airtime(pkts[f], throughput[cur[f]]) - quantum[cur[f]]
  <2>1. InRound(f, cur[f])
    BY <1>4 DEF InRound
  <2>2. BatchTime(owner) = Airtime(pkts[f], throughput[cur[f]])
    BY <1>4, HolderTypes
  <2> QED BY <1>2, <1>4, <2>1, <2>2 DEF QueuesBar, CreditBar
<1>5. ASSUME NEW f \in Forwarders, owner = f, pc[f] = "finish"
      PROVE  /\ QueuesBar[cur[f]] = queues[cur[f]]
             /\ CreditBar[cur[f]] = IF top[f] = 0 THEN 0 ELSE counter[cur[f]]
  <2>1. \A g \in Forwarders : ~InRound(g, cur[f])
    BY <1>5 DEF InRound
  <2>2. (\E g \in Forwarders : Forfeits(g, cur[f])) <=> top[f] = 0
    BY <1>5 DEF Forfeits
  <2> QED BY <1>2, <1>5, <2>1, <2>2 DEF QueuesBar, CreditBar
<1> QED BY <1>1, <1>2, <1>3, <1>4, <1>5 DEF BarsWithoutRound, BarsInRound

LEMMA BarsAreThen == IInv' => BarsWithoutRound' /\ BarsInRound'
  BY BarsAre, PTL

(* RoundRobin's variables are functions. *)
LEMMA BarFunctions ==
  /\ QueuesBar = [c \in Clients |-> QueuesBar[c]] /\ CreditBar = [c \in Clients |-> CreditBar[c]]
  /\ QueuesBar' = [c \in Clients |-> QueuesBar'[c]]
  /\ CreditBar' = [c \in Clients |-> CreditBar'[c]]
  BY DEF QueuesBar, CreditBar

(* A step that changes none of this is none of RoundRobin's. *)
LEMMA BarsStay ==
  ASSUME IInv, IInv', UNCHANGED <<queues, toClear, owner, statsVars, oseq>>,
         \A f \in Forwarders : owner = f =>
           pc'[f] = pc[f] /\ cur'[f] = cur[f] /\ top'[f] = top[f] /\ pkts'[f] = pkts[f]
  PROVE  UNCHANGED DRR!vars
<1>1. Rates' = Rates /\ QuantaBar' = QuantaBar
  BY DEF Rates, QuantaBar, statsVars
<1>2. ASSUME NEW c \in Clients PROVE QueuesBar'[c] = QueuesBar[c] /\ CreditBar'[c] = CreditBar[c]
  <2>1. CASE owner \notin Forwarders
    BY <2>1, BarsAre, BarsAreThen DEF BarsWithoutRound, statsVars
  <2>2. CASE owner \in Forwarders
    <3>1. PICK f \in Forwarders : owner = f
      BY <2>2
    <3>2. pc[f] \in {"peek", "pop", "finish"}
      BY <3>1 DEF IInv, LockOK, Holding
    <3>3. /\ owner' = f /\ pc'[f] = pc[f] /\ cur'[f] = cur[f] /\ top'[f] = top[f]
          /\ pkts'[f] = pkts[f] /\ queues' = queues /\ counter' = counter
          /\ throughput' = throughput /\ quantum' = quantum /\ cur[f] \in Clients
      BY <3>1, HolderTypes DEF statsVars
    <3>4. CASE c # cur[f]
      <4>1. QueuesBar[c] = queues[c] /\ CreditBar[c] = counter[c]
        BY <3>1, <3>4, BarsAre DEF BarsInRound
      <4>2. QueuesBar'[c] = queues'[c] /\ CreditBar'[c] = counter'[c]
        BY <3>3, <3>4, BarsAreThen DEF BarsInRound
      <4> QED BY <3>3, <4>1, <4>2
    <3>5. CASE c = cur[f] /\ pc[f] \in {"peek", "pop"}
      <4>1. /\ QueuesBar[c] = pkts[f] \o queues[c]
            /\ CreditBar[c] = counter[c] + Airtime(pkts[f], throughput[c]) - quantum[c]
        BY <3>1, <3>5, BarsAre DEF BarsInRound
      <4>2. /\ QueuesBar'[c] = pkts'[f] \o queues'[c]
            /\ CreditBar'[c] = counter'[c] + Airtime(pkts'[f], throughput'[c]) - quantum'[c]
        BY <3>3, <3>5, BarsAreThen DEF BarsInRound, Airtime
      <4> QED BY <3>3, <4>1, <4>2
    <3>6. CASE c = cur[f] /\ pc[f] = "finish"
      <4>1. QueuesBar[c] = queues[c] /\ CreditBar[c] = IF top[f] = 0 THEN 0 ELSE counter[c]
        BY <3>1, <3>6, BarsAre DEF BarsInRound
      <4>2. /\ QueuesBar'[c] = queues'[c]
            /\ CreditBar'[c] = IF top'[f] = 0 THEN 0 ELSE counter'[c]
        BY <3>3, <3>6, BarsAreThen DEF BarsInRound
      <4> QED BY <3>3, <4>1, <4>2
    <3> QED BY <3>2, <3>4, <3>5, <3>6
  <2> QED BY <2>1, <2>2
<1>3. QueuesBar' = QueuesBar /\ CreditBar' = CreditBar
  BY <1>2, BarFunctions
<1> QED BY <1>1, <1>3 DEF DRR!vars


-----------------------------------------------------------------------------
(* The refinement: each step of PktScheduler *)

LEMMA EmptyStep == IInv /\ EmptyWithoutQueue /\ [Next]_vars => EmptyWithoutQueue'
<1> SUFFICES ASSUME IInv, EmptyWithoutQueue, [Next]_vars PROVE EmptyWithoutQueue'
  OBVIOUS
<1>0. /\ queues \in [Clients -> Seq(Packet)] /\ LockOK /\ HandOK /\ StatsOK
  BY DEF IInv, TypeOK
<1>1. CASE UNCHANGED <<queues, hasQueue>>
  BY <1>1 DEF EmptyWithoutQueue
<1>2. ASSUME NEW c \in Clients, NEW len \in Lens, Enqueue(c, len) PROVE EmptyWithoutQueue'
  <2>1. hasQueue' = hasQueue /\ c \in hasQueue /\ \A d \in Clients \ {c} : queues'[d] = queues[d]
    BY <1>0, <1>2 DEF Enqueue
  <2> QED BY <2>1 DEF EmptyWithoutQueue
<1>3. ASSUME NEW f \in Forwarders, Pop(f) PROVE EmptyWithoutQueue'
  <2>1. cur[f] \in hasQueue
    BY <1>0, <1>3 DEF Pop, HandOK, Holding, StatsOK
  <2>2. hasQueue' = hasQueue /\ \A d \in Clients \ {cur[f]} : queues'[d] = queues[d]
    BY <1>0, <1>3 DEF Pop
  <2> QED BY <2>1, <2>2 DEF EmptyWithoutQueue
<1>4. ASSUME NEW c \in Clients, ClearQueue(c) PROVE EmptyWithoutQueue'
  BY <1>0, <1>4 DEF ClearQueue, EmptyWithoutQueue
<1>5. ASSUME NEW thr \in ThroughputMaps, BeginCompute(thr) PROVE EmptyWithoutQueue'
  <2>1. queues' = queues /\ hasQueue \subseteq hasQueue'
    BY <1>5 DEF BeginCompute
  <2> QED BY <2>1 DEF EmptyWithoutQueue
<1>6. \/ UNCHANGED <<queues, hasQueue>>
      \/ \E c \in Clients, len \in Lens : Enqueue(c, len)
      \/ \E f \in Forwarders : Pop(f)
      \/ \E c \in Clients : ClearQueue(c)
      \/ \E thr \in ThroughputMaps : BeginCompute(thr)
  BY DEF Next, ReadTunStep, ForwarderStep, ComputeRoutesStep, EnqueueAppend, WaitFill,
    SpuriousWakeup, RemoveFromList, StartRound, SkipClient, Peek, FinishEmpty,
    FinishBacklogged, Send, EndCompute, vars
<1> QED BY <1>1, <1>2, <1>3, <1>4, <1>5, <1>6

(* Steps of threads that do not hold lock_, or of its holder on the way.   *)
LEMMA QuietStep ==
  ASSUME IInv, IInv',
         \/ EnqueueAppend
         \/ \E f \in Forwarders : \/ WaitFill(f) \/ SpuriousWakeup(f) \/ RemoveFromList(f)
                                  \/ SkipClient(f) \/ Send(f)
  PROVE  UNCHANGED DRR!vars
<1>0. /\ LockOK /\ pc \in [Forwarders -> Places] /\ pkts \in [Forwarders -> Seq(Packet)]
      /\ cur \in [Forwarders -> Clients \cup {NoClient}]
  BY DEF IInv, TypeOK
<1>1. CASE EnqueueAppend
  <2>1. /\ UNCHANGED <<queues, toClear, owner, statsVars, oseq>>
        /\ cur' = cur /\ top' = top /\ pkts' = pkts
    BY <1>1 DEF EnqueueAppend
  <2>2. \A f \in Forwarders : pc'[f] # pc[f] => pc[f] = "asleep"
    BY <1>0, <1>1, AppendPlaces DEF EnqueueAppend
  <2>3. \A f \in Forwarders : owner = f => pc'[f] = pc[f]
    BY <1>0, <2>2 DEF LockOK, Holding
  <2> QED BY <2>1, <2>3, BarsStay
<1>2. ASSUME NEW g \in Forwarders,
             \/ WaitFill(g) \/ SpuriousWakeup(g) \/ RemoveFromList(g) \/ SkipClient(g) \/ Send(g)
      PROVE  UNCHANGED DRR!vars
  <2>1. UNCHANGED <<queues, toClear, owner, statsVars, oseq>>
    BY <1>2 DEF WaitFill, SpuriousWakeup, RemoveFromList, SkipClient, Send
  <2>2. pc[g] \notin Holding
    BY <1>2 DEF WaitFill, SpuriousWakeup, RemoveFromList, SkipClient, Send, Holding
  <2>3. \A f \in Forwarders \ {g} :
          pc'[f] = pc[f] /\ cur'[f] = cur[f] /\ top'[f] = top[f] /\ pkts'[f] = pkts[f]
    BY <1>0, <1>2 DEF WaitFill, SpuriousWakeup, RemoveFromList, SkipClient, Send
  <2>4. owner # g
    BY <1>0, <2>2 DEF LockOK
  <2> QED BY <2>1, <2>3, <2>4, BarsStay
<1> QED BY <1>1, <1>2

(* The round begins: nothing is taken yet and neither quantum nor charges  *)
(* count.                                                                  *)
LEMMA StartStays ==
  ASSUME IInv, IInv', NEW f \in Forwarders, StartRound(f)
  PROVE  UNCHANGED DRR!vars
<1> DEFINE c == cur[f]
<1>1. /\ c \in served /\ c \in Clients /\ owner = NoThread /\ owner' = f
      /\ pc'[f] = "peek" /\ pkts'[f] = <<>> /\ cur' = cur /\ queues' = queues
      /\ quantum' = quantum /\ throughput' = throughput /\ served' = served
      /\ toClear' = toClear /\ oseq' = oseq
      /\ counter'[c] = counter[c] + quantum[c]
      /\ \A d \in Clients \ {c} : counter'[d] = counter[d]
      /\ counter[c] \in Nat /\ quantum[c] \in Nat /\ queues[c] \in Seq(Packet)
  BY DEF StartRound, LockIsFree, RoundTime, IInv, TypeOK
<1>2. owner \notin Forwarders /\ owner # ComputeRoutes
  BY <1>1, SchedulerAssumption
<1>3. toClear = {}
  BY <1>2 DEF IInv, StatsOK
<1>4. \A d \in Clients : QueuesBar[d] = queues[d] /\ CreditBar[d] = counter[d]
  BY <1>2, <1>3, BarsAre DEF BarsWithoutRound
<1>5. QueuesBar'[c] = queues[c] /\ CreditBar'[c] = counter[c]
  <2>1. /\ QueuesBar'[c] = pkts'[f] \o queues'[c]
        /\ CreditBar'[c] = counter'[c] + Airtime(pkts'[f], throughput'[c]) - quantum'[c]
    BY <1>1, BarsAreThen DEF BarsInRound, Airtime
  <2>2. Airtime(<<>>, throughput[c]) = 0
    BY AirtimeOfNothing
  <2> HIDE DEF c
  <2>3. QueuesBar'[c] = <<>> \o queues[c]
    BY <1>1, <2>1
  <2>4. <<>> \o queues[c] = queues[c]
    BY <1>1, ConcatEmptySeq
  <2>5. CreditBar'[c] = counter[c] + quantum[c] + 0 - quantum[c]
    BY <1>1, <2>1, <2>2
  <2> QED BY <1>1, <2>3, <2>4, <2>5
<1>6. \A d \in Clients \ {c} : QueuesBar'[d] = queues[d] /\ CreditBar'[d] = counter[d]
  BY <1>1, BarsAreThen DEF BarsInRound
<1>7. QueuesBar' = QueuesBar /\ CreditBar' = CreditBar
  BY <1>4, <1>5, <1>6, BarFunctions
<1>8. Rates' = Rates
  BY <1>1 DEF Rates
<1>9. QuantaBar' = QuantaBar
  <2>1. QuantaBar' = [d \in served' |-> quantum'[d]]
    BY <1>1, BarsAreThen DEF BarsInRound
  <2> QED BY <1>1, <1>2, <2>1 DEF QuantaBar
<1> QED BY <1>1, <1>7, <1>8, <1>9 DEF DRR!vars

(* A packet goes from the queue to the batch, and its time from the        *)
(* counter to what is paid.                                                *)
LEMMA PopStays ==
  ASSUME IInv, IInv', NEW f \in Forwarders, Pop(f)
  PROVE  UNCHANGED DRR!vars
<1> DEFINE c == cur[f]
           thr == throughput[c]
           p == Head(queues[c])
           d == Duration(p.len, thr)
<1>0. owner = f /\ pc[f] = "pop"
  BY DEF Pop, IInv, LockOK, Holding
<1>1. /\ c \in Clients /\ thr \in Nat /\ thr > 0 /\ counter[c] \in Nat /\ quantum[c] \in Nat
      /\ pkts[f] \in Seq(Packet) /\ queues[c] \in Seq(Packet)
  BY <1>0, HolderTypes
<1>2. /\ pkts'[f] = Append(pkts[f], p) /\ cur' = cur /\ quantum' = quantum
      /\ throughput' = throughput /\ counter'[c] = counter[c] - Duration(top[f], thr)
      /\ queues'[c] = Tail(queues[c]) /\ queues[c] # <<>> /\ p.len = top[f]
      /\ owner' = f /\ pc'[f] = "peek" /\ served' = served /\ oseq' = oseq
      /\ \A e \in Clients \ {c} : queues'[e] = queues[e] /\ counter'[e] = counter[e]
  <2>1. /\ queues[c] # <<>> /\ p.len = top[f]
        /\ owner = f
    BY <1>0 DEF IInv, PopIsSafe
  <2>2. /\ pkts'[f] = Append(pkts[f], p) /\ pc'[f] = "peek"
    BY DEF Pop, IInv, TypeOK
  <2>3. /\ cur' = cur /\ quantum' = quantum /\ throughput' = throughput
        /\ owner' = owner /\ served' = served /\ oseq' = oseq
    BY DEF Pop
  <2>4. /\ queues'[c] = Tail(queues[c])
        /\ \A e \in Clients \ {c} : queues'[e] = queues[e]
    BY <1>1 DEF Pop, PopFront, IInv, TypeOK
  <2>5. /\ counter'[c] = counter[c] - Duration(top[f], thr)
        /\ \A e \in Clients \ {c} : counter'[e] = counter[e]
    BY <1>1 DEF Pop, Charged, IInv, TypeOK
  <2> HIDE DEF c, thr, p, d
  <2> QED BY <2>1, <2>2, <2>3, <2>4, <2>5
<1>3. p \in Packet /\ pkts[f] \o queues[c] = Append(pkts[f], p) \o Tail(queues[c])
  <2> HIDE DEF c
  <2>1. p \in Packet
    BY <1>1, <1>2
  <2> QED BY <1>1, <1>2, <2>1, HeadMoves
<1>4. d \in Nat
  <2>1. p.len \in Nat
    BY <1>3, LenNat DEF Packet
  <2> HIDE DEF thr, p
  <2> QED BY <1>1, <2>1, DurationNat
<1>5. /\ Airtime(pkts[f], thr) \in Nat
      /\ Airtime(Append(pkts[f], p), thr) = Airtime(pkts[f], thr) + d
  <2> HIDE DEF thr, p
  <2> QED BY <1>1, <1>3, AirtimeAppend
<1>6. /\ QueuesBar[c] = pkts[f] \o queues[c]
      /\ CreditBar[c] = counter[c] + Airtime(pkts[f], thr) - quantum[c]
  BY <1>0, BarsAre DEF BarsInRound
<1>7. /\ QueuesBar'[c] = Append(pkts[f], p) \o Tail(queues[c])
      /\ CreditBar'[c] = counter[c] - d + Airtime(Append(pkts[f], p), thr) - quantum[c]
  <2>1. /\ QueuesBar'[c] = pkts'[f] \o queues'[c]
        /\ CreditBar'[c] = counter'[c] + Airtime(pkts'[f], throughput'[c]) - quantum'[c]
    BY <1>2, BarsAreThen DEF BarsInRound, Airtime
  <2> QED BY <1>2, <2>1
<1>8. QueuesBar'[c] = QueuesBar[c] /\ CreditBar'[c] = CreditBar[c]
  <2>1. QueuesBar'[c] = QueuesBar[c]
    BY <1>3, <1>6, <1>7
  <2> DEFINE a == Airtime(pkts[f], thr)
  <2>2. /\ counter[c] \in Nat /\ quantum[c] \in Nat /\ a \in Nat
        /\ CreditBar[c] = counter[c] + a - quantum[c]
        /\ CreditBar'[c] = counter[c] - d + (a + d) - quantum[c]
    BY <1>1, <1>5, <1>6, <1>7
  <2> HIDE DEF c, thr, p, d, a
  <2>3. CreditBar'[c] = CreditBar[c]
    BY <1>4, <2>2
  <2> QED BY <2>1, <2>3
<1>9. \A e \in Clients \ {c} : QueuesBar[e] = queues[e] /\ CreditBar[e] = counter[e]
  BY <1>0, BarsAre DEF BarsInRound
<1>10. \A e \in Clients \ {c} : QueuesBar'[e] = queues'[e] /\ CreditBar'[e] = counter'[e]
  BY <1>2, BarsAreThen DEF BarsInRound
<1>11. QueuesBar' = QueuesBar /\ CreditBar' = CreditBar
  <2>1. \A e \in Clients : QueuesBar'[e] = QueuesBar[e] /\ CreditBar'[e] = CreditBar[e]
    BY <1>2, <1>8, <1>9, <1>10
  <2> QED BY <2>1, BarFunctions
<1>12. Rates' = Rates
  BY <1>2 DEF Rates
<1>13. QuantaBar' = QuantaBar
  <2>1. QuantaBar' = [e \in served' |-> quantum'[e]]
    BY <1>2, BarsAreThen DEF BarsInRound
  <2>2. QuantaBar = [e \in served |-> quantum[e]]
    BY <1>0, BarsAre DEF BarsInRound
  <2> QED BY <1>2, <2>1, <2>2
<1> QED BY <1>2, <1>11, <1>12, <1>13 DEF DRR!vars


(* A packet arrives, or finds the queue full and is lost.                  *)
LEMMA ArriveStep ==
  ASSUME IInv, IInv', NEW c \in Clients, NEW len \in Lens, Enqueue(c, len)
  PROVE  DRR!Arrive(c, len)
<1> DEFINE p == [seq |-> oseq[c] + 1, len |-> len]
<1>1. /\ oseq[c] < MaxSeq /\ oseq' = [oseq EXCEPT ![c] = @ + 1]
      /\ UNCHANGED <<toClear, owner, pc, cur, top, pkts>> /\ UNCHANGED statsVars
      /\ oseq[c] + 1 \in 1..MaxSeq
  <2>1. /\ oseq[c] < MaxSeq /\ oseq' = [oseq EXCEPT ![c] = @ + 1]
        /\ UNCHANGED <<toClear, owner, pc, cur, top, pkts>> /\ UNCHANGED statsVars
    BY DEF Enqueue, fwdVars
  <2>2. oseq[c] \in 0..MaxSeq /\ MaxSeq \in Nat
    BY SchedulerAssumption DEF IInv, TypeOK
  <2> QED BY <2>1, <2>2
<1>2. p \in Packet
  BY <1>1 DEF Packet
<1>3. Rates' = Rates /\ QuantaBar' = QuantaBar
  BY <1>1 DEF Rates, QuantaBar, statsVars
<1>4. /\ served' = served /\ throughput' = throughput /\ quantum' = quantum
      /\ counter' = counter
  BY <1>1 DEF statsVars
<1>5. queues \in [Clients -> Seq(Packet)] /\ \A f \in Forwarders : pkts[f] \in Seq(Packet)
  BY DEF IInv, TypeOK
<1>6. \/ queues' = queues /\ Len(queues[c]) = MaxSize
      \/ queues' = [queues EXCEPT ![c] = Append(@, p)]
  BY DEF Enqueue, IsFull, Pushed
<1>7. \A d \in Clients \ {c} : queues'[d] = queues[d]
  BY <1>5, <1>6
<1>8. \A s, q \in Seq(Packet) : s \o Append(q, p) = Append(s \o q, p)
  <2> HIDE DEF p
  <2>1. ASSUME NEW s \in Seq(Packet), NEW q \in Seq(Packet)
        PROVE  s \o Append(q, p) = Append(s \o q, p)
    BY <1>2, TailGrows
  <2> QED BY <2>1
(* How RoundRobin's queues change, with and without a round going on. *)
<1>9. ASSUME NEW d \in Clients
      PROVE  /\ CreditBar'[d] = CreditBar[d]
             /\ d # c => QueuesBar'[d] = QueuesBar[d]
             /\ d = c => \/ queues' = queues /\ QueuesBar'[c] = QueuesBar[c]
                         \/ c \in toClear /\ QueuesBar'[c] = QueuesBar[c]
                         \/ QueuesBar'[c] = Append(QueuesBar[c], p)
  <2>1. CASE owner \notin Forwarders
    <3>1. /\ QueuesBar[d] = IF d \in toClear THEN <<>> ELSE queues[d]
          /\ CreditBar[d] = counter[d]
      BY <2>1, BarsAre DEF BarsWithoutRound
    <3>2. /\ QueuesBar'[d] = IF d \in toClear THEN <<>> ELSE queues'[d]
          /\ CreditBar'[d] = counter[d]
      BY <1>1, <1>4, <2>1, BarsAreThen DEF BarsWithoutRound
    <3>3. queues'[c] = queues[c] \/ queues'[c] = Append(queues[c], p)
      BY <1>5, <1>6
    <3> QED BY <1>5, <1>6, <1>7, <3>1, <3>2, <3>3
  <2>2. CASE owner \in Forwarders
    <3>1. PICK f \in Forwarders : owner = f
      BY <2>2
    <3>2. pc[f] \in {"peek", "pop", "finish"} /\ cur[f] \in Clients
      BY <3>1, HolderTypes DEF IInv, LockOK, Holding
    <3>3. CASE d # cur[f]
      <4>1. QueuesBar[d] = queues[d] /\ CreditBar[d] = counter[d]
        BY <3>1, <3>3, BarsAre DEF BarsInRound
      <4>2. QueuesBar'[d] = queues'[d] /\ CreditBar'[d] = counter[d]
        BY <1>1, <1>4, <3>1, <3>3, BarsAreThen DEF BarsInRound
      <4> QED BY <1>5, <1>6, <1>7, <4>1, <4>2
    <3>4. CASE d = cur[f] /\ pc[f] = "finish"
      <4>1. QueuesBar[d] = queues[d] /\ CreditBar[d] = IF top[f] = 0 THEN 0 ELSE counter[d]
        BY <3>1, <3>4, BarsAre DEF BarsInRound
      <4>2. /\ QueuesBar'[d] = queues'[d]
            /\ CreditBar'[d] = IF top[f] = 0 THEN 0 ELSE counter[d]
        BY <1>1, <1>4, <3>1, <3>4, BarsAreThen DEF BarsInRound
      <4> QED BY <1>5, <1>6, <1>7, <4>1, <4>2
    <3>5. CASE d = cur[f] /\ pc[f] \in {"peek", "pop"}
      <4>1. /\ QueuesBar[d] = pkts[f] \o queues[d]
            /\ CreditBar[d] = counter[d] + Airtime(pkts[f], throughput[d]) - quantum[d]
        BY <3>1, <3>5, BarsAre DEF BarsInRound
      <4>2. /\ QueuesBar'[d] = pkts[f] \o queues'[d]
            /\ CreditBar'[d] = counter[d] + Airtime(pkts[f], throughput[d]) - quantum[d]
        <5>1. /\ QueuesBar'[d] = pkts'[f] \o queues'[d]
              /\ CreditBar'[d] = counter'[d] + Airtime(pkts'[f], throughput'[d]) - quantum'[d]
          BY <1>1, <3>1, <3>5, BarsAreThen DEF BarsInRound, Airtime
        <5> QED BY <1>1, <1>4, <5>1
      <4>3. pkts[f] \o Append(queues[d], p) = Append(pkts[f] \o queues[d], p)
        BY <1>5, <1>8
      <4>4. queues' = queues \/ (d = c => queues'[d] = Append(queues[d], p))
        BY <1>5, <1>6
      <4> QED BY <1>7, <4>1, <4>2, <4>3, <4>4
    <3> QED BY <3>2, <3>3, <3>4, <3>5
  <2> QED BY <2>1, <2>2
<1>10. CreditBar' = CreditBar
  BY <1>9, BarFunctions
<1>11. \/ QueuesBar' = [QueuesBar EXCEPT ![c] = Append(@, p)]
       \/ QueuesBar' = QueuesBar /\ (c \in toClear \/ queues' = queues)
  <2>1. CASE QueuesBar'[c] = Append(QueuesBar[c], p)
    <3>1. \A d \in Clients :
            QueuesBar'[d] = [QueuesBar EXCEPT ![c] = Append(@, p)][d]
      BY <1>9, <2>1, BarFunctions
    <3>2. DOMAIN QueuesBar = Clients
      BY BarFunctions
    <3> QED BY <3>1, <3>2, BarFunctions
  <2>2. CASE QueuesBar'[c] = QueuesBar[c] /\ (c \in toClear \/ queues' = queues)
    <3>1. \A d \in Clients : QueuesBar'[d] = QueuesBar[d]
      BY <1>9, <2>2
    <3> QED BY <2>2, <3>1, BarFunctions
  <2> QED BY <1>9, <2>1, <2>2
<1>12. c \in toClear => c \notin DOMAIN Rates
  BY DEF Rates, IInv, StatsOK
<1>13. queues' = queues => c \notin DOMAIN Rates \/ Len(QueuesBar[c]) >= MaxSize
  <2> SUFFICES ASSUME queues' = queues, c \notin toClear PROVE Len(QueuesBar[c]) >= MaxSize
    BY <1>12
  <2>1. Len(queues[c]) = MaxSize
    <3>1. Len(Append(queues[c], p)) = Len(queues[c]) + 1 /\ Len(queues[c]) \in Nat
      BY <1>2, <1>5, AppendProperties, LenProperties
    <3>2. queues'[c] # Append(queues[c], p)
      BY <3>1
    <3> QED BY <1>5, <1>6, <3>2
  <2>2. CASE owner \notin Forwarders
    BY <2>1, <2>2, BarsAre, SchedulerAssumption DEF BarsWithoutRound
  <2>3. CASE owner \in Forwarders
    <3>1. PICK f \in Forwarders : owner = f
      BY <2>3
    <3>2. pc[f] \in {"peek", "pop", "finish"} /\ cur[f] \in Clients
      BY <3>1, HolderTypes DEF IInv, LockOK, Holding
    <3>3. QueuesBar[c] = queues[c] \/ QueuesBar[c] = pkts[f] \o queues[c]
      BY <3>1, <3>2, BarsAre DEF BarsInRound
    <3>4. /\ Len(pkts[f]) \in Nat /\ Len(queues[c]) \in Nat
          /\ Len(pkts[f] \o queues[c]) = Len(pkts[f]) + Len(queues[c])
      <4>1. pkts[f] \in Seq(Packet) /\ queues[c] \in Seq(Packet)
        BY <1>5
      <4> QED BY <4>1, Parts
    <3>5. Len(queues[c]) >= MaxSize /\ MaxSize \in Nat
      BY <2>1, SchedulerAssumption
    <3>6. CASE QueuesBar[c] = queues[c]
      BY <3>5, <3>6
    <3>7. CASE QueuesBar[c] = pkts[f] \o queues[c]
      <4>1. Len(QueuesBar[c]) = Len(pkts[f]) + Len(queues[c])
        BY <3>4, <3>7
      <4> DEFINE a == Len(pkts[f])
                 b == Len(queues[c])
                 x == Len(QueuesBar[c])
      <4>2. a \in Nat /\ b \in Nat /\ b >= MaxSize /\ MaxSize \in Nat /\ x = a + b
        BY <3>4, <3>5, <4>1
      <4> HIDE DEF a, b, x
      <4>3. x >= MaxSize
        BY <4>2
      <4> QED BY <4>3 DEF x
    <3> QED BY <3>3, <3>6, <3>7
  <2> QED BY <2>2, <2>3
<1> QED BY <1>1, <1>3, <1>10, <1>11, <1>12, <1>13 DEF DRR!Arrive


(* RoundRobin's TimeOf is the airtime.                                     *)
LEMMA TimeIsAirtime ==
  ASSUME NEW s \in Seq(Packet), NEW thr
  PROVE  DRR!TimeOf(s, thr) = Airtime(s, thr)
<1>1. DOMAIN s = 1..Len(s)
  BY LenProperties
<1>2. DRR!TimeOf(s, thr) = SumFunction([i \in DOMAIN s |-> Duration(s[i].len, thr)])
  BY DEF DRR!TimeOf, DRR!Duration, Duration, DRR!SumFunction, SumFunction,
         DRR!SumFunctionOnSet, SumFunctionOnSet, DRR!FoldFunctionOnSet, FoldFunctionOnSet,
         DRR!MapThenFoldSet, MapThenFoldSet
<1> QED BY <1>1, <1>2 DEF Airtime

LEMMA SameDuration == ASSUME NEW len, NEW thr PROVE DRR!Duration(len, thr) = Duration(len, thr)
  BY DEF DRR!Duration, Duration

(* Dequeue looks at the top packet: the round goes on, or it ends and has  *)
(* taken what is in the batch.                                             *)
LEMMA PeekStep ==
  ASSUME IInv, IInv', NEW f \in Forwarders, Peek(f)
  PROVE  \/ UNCHANGED DRR!vars
         \/ \E c \in DOMAIN Rates : \E n \in 0..Len(QueuesBar[c]) : DRR!Round(c, n)
<1> DEFINE c == cur[f]
           thr == throughput[c]
           len == PeekTopPktSize(c)
           s == pkts[f]
           q == queues[c]
           n == Len(s)
<1>0. owner = f /\ pc[f] = "peek"
  BY DEF Peek, IInv, LockOK, Holding
<1>1. /\ c \in served /\ c \in Clients /\ thr \in Nat /\ thr > 0
      /\ counter[c] \in Nat /\ quantum[c] \in Nat
      /\ s \in Seq(Packet) /\ q \in Seq(Packet)
  BY <1>0, HolderTypes
<1>2. /\ top'[f] = len /\ pc'[f] = (IF len > 0 /\ Affords(c, len) THEN "pop" ELSE "finish")
      /\ owner' = f /\ cur' = cur /\ pkts' = pkts /\ queues' = queues /\ toClear' = toClear
      /\ served' = served /\ throughput' = throughput /\ quantum' = quantum
      /\ counter' = counter /\ oseq' = oseq
  BY <1>0 DEF Peek, statsVars, IInv, TypeOK
<1>3. Rates' = Rates
  BY <1>2 DEF Rates
<1>4. QuantaBar' = QuantaBar /\ QuantaBar = [e \in served |-> quantum[e]]
  <2>1. QuantaBar' = [e \in served' |-> quantum'[e]]
    BY <1>2, BarsAreThen DEF BarsInRound
  <2>2. QuantaBar = [e \in served |-> quantum[e]]
    BY <1>0, BarsAre DEF BarsInRound
  <2> QED BY <1>2, <2>1, <2>2
<1>5. \A e \in Clients \ {c} : QueuesBar'[e] = QueuesBar[e] /\ CreditBar'[e] = CreditBar[e]
  <2>1. \A e \in Clients \ {c} : QueuesBar[e] = queues[e] /\ CreditBar[e] = counter[e]
    BY <1>0, BarsAre DEF BarsInRound
  <2>2. \A e \in Clients \ {c} : QueuesBar'[e] = queues'[e] /\ CreditBar'[e] = counter'[e]
    BY <1>2, BarsAreThen DEF BarsInRound
  <2> QED BY <1>2, <2>1, <2>2
<1>6. QueuesBar[c] = s \o q /\ CreditBar[c] = counter[c] + Airtime(s, thr) - quantum[c]
  BY <1>0, BarsAre DEF BarsInRound
<1>7. CASE len > 0 /\ Affords(c, len)
  <2>1. /\ QueuesBar'[c] = pkts'[f] \o queues'[c]
        /\ CreditBar'[c] = counter'[c] + Airtime(pkts'[f], throughput'[c]) - quantum'[c]
    BY <1>2, <1>7, BarsAreThen DEF BarsInRound, Airtime
  <2>2. QueuesBar'[c] = QueuesBar[c] /\ CreditBar'[c] = CreditBar[c]
    BY <1>2, <1>6, <2>1
  <2>3. QueuesBar' = QueuesBar /\ CreditBar' = CreditBar
    BY <1>5, <2>2, BarFunctions
  <2> QED BY <1>2, <1>3, <1>4, <2>3 DEF DRR!vars
<1>8. CASE ~(len > 0 /\ Affords(c, len))
  <2>1. /\ QueuesBar'[c] = q
        /\ CreditBar'[c] = IF len = 0 THEN 0 ELSE counter[c]
    <3>1. /\ QueuesBar'[c] = queues'[c]
          /\ CreditBar'[c] = IF top'[f] = 0 THEN 0 ELSE counter'[c]
      BY <1>2, <1>8, BarsAreThen DEF BarsInRound
    <3> QED BY <1>2, <3>1
  <2>2. /\ n \in Nat /\ Len(q) \in Nat /\ Len(s \o q) = n + Len(q)
        /\ SubSeq(s \o q, 1, n) = s /\ SubSeq(s \o q, n + 1, Len(s \o q)) = q
        /\ q # <<>> => (s \o q)[n + 1] = Head(q)
    <3> HIDE DEF s, q
    <3> QED BY <1>1, Parts
  <2>3. QueuesBar' = [QueuesBar EXCEPT ![c] = SubSeq(QueuesBar[c], n + 1, Len(QueuesBar[c]))]
    <3>1. QueuesBar'[c] = SubSeq(QueuesBar[c], n + 1, Len(QueuesBar[c]))
      BY <1>6, <2>1, <2>2
    <3> QED BY <1>1, <1>5, <3>1, BarFunctions
  <2> DEFINE left == CreditBar[c] + QuantaBar[c]
                       - DRR!TimeOf(SubSeq(QueuesBar[c], 1, n), Rates[c])
  <2>4. left = counter[c]
    <3>1. QuantaBar[c] = quantum[c] /\ Rates[c] = thr
      BY <1>1, <1>4 DEF Rates
    <3>2. DRR!TimeOf(SubSeq(QueuesBar[c], 1, n), Rates[c]) = Airtime(s, thr)
      <4>1. SubSeq(QueuesBar[c], 1, n) = s
        BY <1>6, <2>2
      <4> HIDE DEF s
      <4> QED BY <1>1, <3>1, <4>1, TimeIsAirtime
    <3>3. Airtime(s, thr) \in Nat
      <4>1. \A p \in Packet : Airtime(s, thr) \in Nat
        <5> HIDE DEF s, thr
        <5> QED BY <1>1, AirtimeAppend
      <4>2. CASE s = <<>>
        BY <4>2, AirtimeOfNothing
      <4>3. CASE s # <<>>
        <5>1. Head(s) \in Packet
          <6> HIDE DEF s
          <6> QED BY <1>1, <4>3
        <5> QED BY <4>1, <5>1
      <4> QED BY <4>2, <4>3
    <3> DEFINE a == Airtime(s, thr)
    <3>4. left = counter[c] + a - quantum[c] + quantum[c] - a
      BY <1>6, <3>1, <3>2
    <3>5. counter[c] \in Nat /\ quantum[c] \in Nat /\ a \in Nat
      BY <1>1, <3>3
    <3> HIDE DEF left, a, c
    <3> QED BY <3>4, <3>5
  <2>5. CASE len = 0
    <3>1. q = <<>>
      <4> SUFFICES ASSUME q # <<>> PROVE FALSE
        OBVIOUS
      <4>1. Head(q) \in Packet
        <5> HIDE DEF q
        <5> QED BY <1>1
      <4>2. Head(q).len \in Nat \ {0}
        BY <4>1, SchedulerAssumption DEF Packet
      <4> QED BY <2>5, <4>2 DEF PeekTopPktSize
    <3>2. n = Len(QueuesBar[c])
      BY <1>6, <2>2, <3>1
    <3>3. CreditBar' = [CreditBar EXCEPT ![c] = 0]
      <4>1. CreditBar'[c] = 0
        BY <2>1, <2>5
      <4> QED BY <1>1, <1>5, <4>1, BarFunctions
    <3>4. left >= 0
      BY <1>1, <2>4
    <3>5. DRR!Round(c, n)
      BY <1>2, <1>3, <1>4, <2>3, <3>2, <3>3, <3>4 DEF DRR!Round
    <3>6. c \in DOMAIN Rates /\ n \in 0..Len(QueuesBar[c])
      BY <1>1, <2>2, <3>2 DEF Rates
    <3> QED BY <3>5, <3>6
  <2>6. CASE len # 0
    <3>1. q # <<>> /\ Head(q).len = len
      BY <2>6 DEF PeekTopPktSize
    <3>2. len \in Nat
      <4>1. Head(q) \in Packet
        <5> HIDE DEF q
        <5> QED BY <1>1, <3>1
      <4> QED BY <3>1, <4>1, LenNat DEF Packet
    <3>3. Duration(len, thr) \in Nat /\ counter[c] < Duration(len, thr)
      <4>1. len > 0
        BY <2>6, <3>2
      <4>2. ~(counter[c] >= Duration(len, thr))
        BY <1>8, <4>1 DEF Affords
      <4>3. Duration(len, thr) \in Nat
        <5> HIDE DEF len, thr
        <5> QED BY <1>1, <3>2, DurationNat
      <4> QED BY <1>1, <4>2, <4>3
    <3>4. n < Len(QueuesBar[c])
      <4>1. Len(q) > 0
        <5> HIDE DEF q
        <5> QED BY <1>1, <3>1, EmptySeq
      <4>2. Len(QueuesBar[c]) = n + Len(q)
        BY <1>6, <2>2
      <4> HIDE DEF n
      <4> QED BY <2>2, <4>1, <4>2
    <3>5. left < DRR!Duration(QueuesBar[c][n + 1].len, Rates[c]) /\ left >= 0
      <4>1. QueuesBar[c][n + 1].len = len /\ Rates[c] = thr
        BY <1>1, <1>6, <2>2, <3>1 DEF Rates
      <4> HIDE DEF left
      <4> QED BY <1>1, <2>4, <3>3, <4>1, SameDuration
    <3>6. CreditBar' = [CreditBar EXCEPT ![c] = left]
      <4>1. CreditBar'[c] = left
        BY <2>1, <2>4, <2>6
      <4> HIDE DEF left
      <4> QED BY <1>1, <1>5, <4>1, BarFunctions
    <3>7. DRR!Round(c, n)
      BY <1>2, <1>3, <1>4, <2>3, <3>4, <3>5, <3>6 DEF DRR!Round
    <3>8. c \in DOMAIN Rates /\ n \in 0..Len(QueuesBar[c])
      <4>1. Len(QueuesBar[c]) = n + Len(q) /\ n \in Nat /\ Len(q) \in Nat
        BY <1>6, <2>2
      <4>2. c \in DOMAIN Rates
        BY <1>1 DEF Rates
      <4> HIDE DEF n
      <4> QED BY <3>4, <4>1, <4>2
    <3> QED BY <3>7, <3>8
  <2> QED BY <2>5, <2>6
<1> QED BY <1>7, <1>8


(* UnLock at the end of a round. *)
LEMMA FinishStays ==
  ASSUME IInv, IInv', NEW f \in Forwarders, FinishEmpty(f) \/ FinishBacklogged(f)
  PROVE  UNCHANGED DRR!vars
<1> DEFINE c == cur[f]
<1>0. owner = f /\ pc[f] = "finish"
  BY DEF FinishEmpty, FinishBacklogged, IInv, LockOK, Holding
<1>1. c \in Clients /\ toClear = {}
  BY <1>0, HolderTypes, BarsAre DEF BarsInRound
<1>2. /\ owner' = NoThread /\ owner' \notin Forwarders /\ owner' # ComputeRoutes
      /\ queues' = queues /\ toClear' = toClear /\ served' = served
      /\ throughput' = throughput /\ quantum' = quantum /\ oseq' = oseq
  BY SchedulerAssumption DEF FinishEmpty, FinishBacklogged, statsVars
<1>3. /\ counter'[c] = (IF top[f] = 0 THEN 0 ELSE counter[c])
      /\ \A d \in Clients \ {c} : counter'[d] = counter[d]
  <2>1. CASE FinishEmpty(f)
    BY <1>1, <2>1 DEF FinishEmpty, IInv, TypeOK
  <2>2. CASE FinishBacklogged(f)
    <3>1. counter' = counter /\ top[f] # 0
      BY <2>2 DEF FinishBacklogged, statsVars
    <3> QED BY <3>1
  <2> QED BY <2>1, <2>2
<1>4. /\ QueuesBar[c] = queues[c] /\ CreditBar[c] = IF top[f] = 0 THEN 0 ELSE counter[c]
      /\ \A d \in Clients \ {c} : QueuesBar[d] = queues[d] /\ CreditBar[d] = counter[d]
  BY <1>0, BarsAre DEF BarsInRound
<1>5. \A d \in Clients : QueuesBar'[d] = queues[d] /\ CreditBar'[d] = counter'[d]
  BY <1>1, <1>2, BarsAreThen DEF BarsWithoutRound
<1>6. QueuesBar' = QueuesBar /\ CreditBar' = CreditBar
  <2>1. \A d \in Clients : QueuesBar'[d] = QueuesBar[d] /\ CreditBar'[d] = CreditBar[d]
    BY <1>3, <1>4, <1>5
  <2> QED BY <2>1, BarFunctions
<1>7. Rates' = Rates
  BY <1>2 DEF Rates
<1>8. QuantaBar' = QuantaBar
  <2>1. QuantaBar = [d \in served |-> quantum[d]]
    BY <1>0, BarsAre DEF BarsInRound
  <2>2. QuantaBar' = [d \in served' |-> quantum'[d]]
    BY <1>2 DEF QuantaBar
  <2> QED BY <1>2, <2>1, <2>2
<1> QED BY <1>2, <1>6, <1>7, <1>8 DEF DRR!vars

(* ComputeQuantum takes effect at once: the queues it has yet to clear     *)
(* count as empty, and what it has yet to compute as computed.             *)
LEMMA ComputeStep ==
  ASSUME IInv, IInv', EmptyWithoutQueue, NEW thr \in ThroughputMaps, BeginCompute(thr)
  PROVE  DRR!Update(thr)
<1>1. /\ owner = NoThread /\ owner' = ComputeRoutes /\ served' = DOMAIN thr
      /\ counter' = [c \in Clients |-> 0] /\ queues' = queues /\ oseq' = oseq
      /\ hasQueue' = hasQueue \cup DOMAIN thr /\ toClear' = hasQueue' \ DOMAIN thr
      /\ throughput' = [c \in Clients |-> IF c \in DOMAIN thr THEN thr[c] ELSE 0]
  BY DEF BeginCompute, LockIsFree, FreshCounters
<1>2. /\ owner \notin Forwarders /\ owner # ComputeRoutes
      /\ owner' \notin Forwarders /\ toClear = {}
  BY <1>1, SchedulerAssumption DEF IInv, StatsOK
<1>3. DOMAIN thr \subseteq Clients /\ thr = [c \in DOMAIN thr |-> thr[c]]
  <2>1. PICK S \in ClientSets : thr \in [S -> Throughputs]
    BY DEF ThroughputMaps
  <2> QED BY <2>1, SchedulerAssumption
<1>4. Rates' = thr
  <2>1. Rates' = [c \in DOMAIN thr |-> throughput'[c]]
    BY <1>1 DEF Rates
  <2>2. \A c \in DOMAIN thr : throughput'[c] = thr[c]
    BY <1>1, <1>3
  <2> QED BY <1>3, <2>1, <2>2
<1>5. QuantaBar' = Quantum(thr)
  <2>1. QuantaBar' = Quantum(Rates')
    BY <1>1 DEF QuantaBar
  <2> QED BY <1>4, <2>1
<1>6. CreditBar' = [c \in Clients |-> 0]
  <2>1. \A c \in Clients : CreditBar'[c] = 0
    BY <1>1, <1>2, BarsAreThen DEF BarsWithoutRound
  <2> QED BY <2>1, BarFunctions
<1>7. QueuesBar' = [c \in Clients |-> IF c \in DOMAIN thr THEN QueuesBar[c] ELSE <<>>]
  <2>1. ASSUME NEW c \in Clients
        PROVE  QueuesBar'[c] = IF c \in DOMAIN thr THEN QueuesBar[c] ELSE <<>>
    <3>1. QueuesBar[c] = queues[c]
      BY <1>2, BarsAre DEF BarsWithoutRound
    <3>2. QueuesBar'[c] = IF c \in toClear' THEN <<>> ELSE queues[c]
      BY <1>1, <1>2, BarsAreThen DEF BarsWithoutRound
    <3>3. c \notin hasQueue => queues[c] = <<>>
      BY DEF EmptyWithoutQueue
    <3> QED BY <1>1, <3>1, <3>2, <3>3
  <2> QED BY <2>1, BarFunctions
<1> QED BY <1>1, <1>4, <1>5, <1>6, <1>7 DEF DRR!Update

LEMMA ComputeStays ==
  ASSUME IInv, IInv', EndCompute \/ \E c \in Clients : ClearQueue(c)
  PROVE  UNCHANGED DRR!vars
<1>1. CASE EndCompute
  <2>1. /\ owner = ComputeRoutes /\ toClear = {} /\ owner' = NoThread
        /\ quantum' = [c \in Clients |-> IF c \in served THEN Quantum(Rates)[c] ELSE 0]
        /\ queues' = queues /\ toClear' = toClear /\ served' = served
        /\ throughput' = throughput /\ counter' = counter /\ oseq' = oseq
    BY <1>1 DEF EndCompute
  <2>2. owner \notin Forwarders /\ owner' \notin Forwarders /\ owner' # ComputeRoutes
    BY <2>1, SchedulerAssumption
  <2>3. \A c \in Clients : QueuesBar'[c] = QueuesBar[c] /\ CreditBar'[c] = CreditBar[c]
    BY <2>1, <2>2, BarsAre, BarsAreThen DEF BarsWithoutRound
  <2>4. Rates' = Rates
    BY <2>1 DEF Rates
  <2>5. Rates \in ThroughputMaps /\ DOMAIN Rates = served /\ served \subseteq Clients
    BY <2>1 DEF IInv, StatsOK, TypeOK, Rates
  <2>6. QuantaBar' = QuantaBar
    <3>1. QuantaBar = Quantum(Rates)
      BY <2>1 DEF QuantaBar
    <3>2. QuantaBar' = [c \in served |-> quantum'[c]]
      BY <2>1, <2>2 DEF QuantaBar
    <3>3. \A c \in served : quantum'[c] = Quantum(Rates)[c]
      BY <2>1, <2>5
    <3>4. Quantum(Rates) \in [served -> Nat]
      BY <2>5, QuantumAssumption
    <3> QED BY <3>1, <3>2, <3>3, <3>4
  <2>7. QueuesBar' = QueuesBar /\ CreditBar' = CreditBar
    BY <2>3, BarFunctions
  <2> QED BY <2>1, <2>4, <2>6, <2>7 DEF DRR!vars
<1>2. ASSUME NEW c \in Clients, ClearQueue(c) PROVE UNCHANGED DRR!vars
  <2>1. /\ c \in toClear /\ queues' = [queues EXCEPT ![c] = <<>>]
        /\ toClear' = toClear \ {c} /\ owner' = owner /\ oseq' = oseq
        /\ served' = served /\ throughput' = throughput /\ quantum' = quantum
        /\ counter' = counter
    BY <1>2 DEF ClearQueue, statsVars
  <2>2. owner \notin Forwarders
    BY <2>1, SchedulerAssumption DEF IInv, StatsOK
  <2>3. queues'[c] = <<>> /\ \A d \in Clients \ {c} : queues'[d] = queues[d]
    BY <2>1 DEF IInv, TypeOK
  <2>4. \A d \in Clients : /\ QueuesBar[d] = IF d \in toClear THEN <<>> ELSE queues[d]
                           /\ CreditBar[d] = counter[d]
    BY <2>2, BarsAre DEF BarsWithoutRound
  <2>5. \A d \in Clients : /\ QueuesBar'[d] = IF d \in toClear' THEN <<>> ELSE queues'[d]
                           /\ CreditBar'[d] = counter[d]
    BY <2>1, <2>2, BarsAreThen DEF BarsWithoutRound
  <2>6. \A d \in Clients : QueuesBar'[d] = QueuesBar[d] /\ CreditBar'[d] = CreditBar[d]
    BY <2>1, <2>3, <2>4, <2>5
  <2>7. Rates' = Rates
    BY <2>1 DEF Rates
  <2>8. QuantaBar' = QuantaBar
    BY <2>1, <2>7 DEF QuantaBar
  <2>9. QueuesBar' = QueuesBar /\ CreditBar' = CreditBar
    BY <2>6, BarFunctions
  <2> QED BY <2>1, <2>7, <2>8, <2>9 DEF DRR!vars
<1> QED BY <1>1, <1>2

-----------------------------------------------------------------------------
(* The refinement: the theorem *)

LEMMA InitIsInit == Init /\ IInv => DRR!Init
<1> SUFFICES ASSUME Init, IInv PROVE DRR!Init
  OBVIOUS
<1>1. /\ owner \notin Forwarders /\ owner # ComputeRoutes /\ toClear = {}
      /\ queues = [c \in Clients |-> <<>>] /\ counter = [c \in Clients |-> 0]
      /\ oseq = [c \in Clients |-> 0] /\ served = ClientIds /\ ClientIds \subseteq Clients
      /\ throughput = [c \in Clients |-> IF c \in ClientIds THEN MinThroughput ELSE 0]
      /\ quantum = [c \in Clients |->
                      IF c \in ClientIds THEN RoundTicks \div Cardinality(ClientIds) ELSE 0]
  BY SchedulerAssumption DEF Init
<1>2. \A c \in Clients : QueuesBar[c] = <<>> /\ CreditBar[c] = 0
  BY <1>1, BarsAre DEF BarsWithoutRound
<1>3. QueuesBar = [c \in Clients |-> <<>>] /\ CreditBar = [c \in Clients |-> 0]
  BY <1>2, BarFunctions
<1>4. Rates = [c \in ClientIds |-> MinThroughput]
  BY <1>1 DEF Rates
<1>5. QuantaBar = EqualTime(Rates)
  <2>1. QuantaBar = [c \in ClientIds |-> RoundTicks \div Cardinality(ClientIds)]
    BY <1>1 DEF QuantaBar
  <2>2. DOMAIN Rates = ClientIds
    BY <1>4
  <2> QED BY <2>1, <2>2 DEF EqualTime
<1>6. QuantaBar = DRR!EqualTime(Rates)
  BY <1>5 DEF DRR!EqualTime, EqualTime, DRR!RoundTicks, RoundTicks,
              DRR!Cardinality, Cardinality
<1> QED BY <1>1, <1>3, <1>4, <1>6 DEF DRR!Init

LEMMA StepIsStep ==
  IInv /\ IInv' /\ EmptyWithoutQueue /\ [Next]_vars => [DRR!Next]_(DRR!vars)
<1> SUFFICES ASSUME IInv, IInv', EmptyWithoutQueue, [Next]_vars
             PROVE  DRR!Next \/ UNCHANGED DRR!vars
  OBVIOUS
<1>1. CASE UNCHANGED vars
  BY <1>1, BarsStay DEF vars, fwdVars
<1>2. ASSUME NEW c \in Clients, NEW len \in Lens, Enqueue(c, len) PROVE DRR!Next
  BY <1>2, ArriveStep DEF DRR!Next
<1>3. ASSUME NEW f \in Forwarders, Peek(f) PROVE DRR!Next \/ UNCHANGED DRR!vars
  BY <1>3, PeekStep DEF DRR!Next
<1>4. ASSUME NEW thr \in ThroughputMaps, BeginCompute(thr) PROVE DRR!Next
  BY <1>4, ComputeStep DEF DRR!Next
<1>5. CASE EndCompute \/ \E c \in Clients : ClearQueue(c)
  BY <1>5, ComputeStays
<1>6. ASSUME NEW f \in Forwarders, StartRound(f) PROVE UNCHANGED DRR!vars
  BY <1>6, StartStays
<1>7. ASSUME NEW f \in Forwarders, Pop(f) PROVE UNCHANGED DRR!vars
  BY <1>7, PopStays
<1>8. ASSUME NEW f \in Forwarders, FinishEmpty(f) \/ FinishBacklogged(f)
      PROVE  UNCHANGED DRR!vars
  BY <1>8, FinishStays
<1>9. CASE \/ EnqueueAppend
           \/ \E f \in Forwarders : \/ WaitFill(f) \/ SpuriousWakeup(f) \/ RemoveFromList(f)
                                    \/ SkipClient(f) \/ Send(f)
  BY <1>9, QuietStep
<1> QED BY <1>1, <1>2, <1>3, <1>4, <1>5, <1>6, <1>7, <1>8, <1>9
        DEF Next, ReadTunStep, ForwarderStep, ComputeRoutesStep

(* A client without a queue has no packets that an update would have to    *)
(* clear.                                                                  *)
THEOREM NoQueueNoPackets == Spec => []EmptyWithoutQueue
<1>1. Init => EmptyWithoutQueue
  BY DEF Init, EmptyWithoutQueue
<1> QED BY <1>1, EmptyStep, Invariance, PTL DEF Spec

(* Enqueue, Dequeue and ComputeQuantum, in all their steps, implement      *)
(* rounds of deficit round robin that each happen at once.                 *)
THEOREM SchedulerImplementsRoundRobin == Spec => ImplementsRoundRobin
<1>1. Init /\ IInv => DRR!Init
  BY InitIsInit
<1>2. IInv /\ IInv' /\ EmptyWithoutQueue /\ [Next]_vars => [DRR!Next]_(DRR!vars)
  BY StepIsStep
<1>3. Spec => DRR!Spec
  BY <1>1, <1>2, Invariance, NoQueueNoPackets, PTL DEF Spec, DRR!Spec
<1> QED BY <1>3 DEF ImplementsRoundRobin

=============================================================================
