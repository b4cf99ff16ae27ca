------------------------- MODULE PktSchedulerProofs -------------------------
(***************************************************************************)
(* Proofs about PktScheduler, for any number of clients and forwarders,    *)
(* any sizes, rates, quanta and domains.                                   *)
(*                                                                         *)
(* IInv is inductive.  Its parts lean on each other: lock_ (LockOK) keeps  *)
(* what a round has seen true (PopIsSafe, BackloggedIsShort), which keeps  *)
(* the types (no Head of an empty queue, no negative counter) and, when    *)
(* the round ends, the bound on the credit (CreditCarried).                *)
(*                                                                         *)
(* With that a domain that nobody leaves strands nobody, and the packets   *)
(* of a client are handed out once and in order.                           *)
(***************************************************************************)
EXTENDS PktScheduler, FiniteSetTheorems, SequenceTheorems, TLAPS

-----------------------------------------------------------------------------
(* Arithmetic *)

LEMMA DivNat == ASSUME NEW a \in Nat, NEW b \in Nat, b > 0
                PROVE  a \div b \in Nat
  BY SMT

LEMMA MulNat == ASSUME NEW a \in Nat, NEW b \in Nat PROVE a * b \in Nat
  BY SMT

(* A packet length, or 0 for no packet. *)
LEMMA LenNat == ASSUME NEW len \in Lens \cup {0} PROVE len \in Nat
  BY SchedulerAssumption

(* The time charged for a packet is a natural number of ticks. *)
LEMMA DurationNat ==
  ASSUME NEW len \in Nat, NEW thr \in Nat, thr > 0
  PROVE  Duration(len, thr) \in Nat
<1>1. 8 * len * RateUnits \in Nat
  BY MulNat, FairShareAssumption
<1>2. (8 * len * RateUnits) \div thr \in Nat
  BY <1>1, DivNat
<1> QED BY <1>2, MulNat, FairShareAssumption DEF Duration

(* The constructor's quantum. *)
LEMMA FirstQuantumNat == RoundTicks \div Cardinality(ClientIds) \in Nat
<1>1. RoundTicks \in Nat
  BY MulNat, FairShareAssumption DEF RoundTicks
<1>2. IsFiniteSet(ClientIds)
  BY SchedulerAssumption, FS_Subset
<1>3. Cardinality(ClientIds) \in Nat /\ Cardinality(ClientIds) > 0
  BY <1>2, SchedulerAssumption, FS_CardinalityType, FS_EmptySet
<1> QED BY <1>1, <1>3, DivNat

LEMMA TailNotEmpty ==
  ASSUME NEW S, NEW s \in Seq(S), s # <<>>, Len(s) # 1
  PROVE  Tail(s) # <<>>
<1>1. Len(s) \in Nat /\ Len(s) # 0
  BY EmptySeq
<1>2. Len(Tail(s)) = Len(s) - 1
  BY LenProperties, HeadTailProperties
<1>3. Len(Tail(s)) # 0
  BY <1>1, <1>2, SMT
<1>4. Len(<<>>) = 0
  OBVIOUS
<1> QED BY <1>3, <1>4, Zenon

-----------------------------------------------------------------------------
(* ActiveList *)

(* A signal wakes at most sleepers. *)
LEMMA SignalWakes ==
  ASSUME NEW p \in [Forwarders -> Places], NEW q \in SignalFill(p)
  PROVE  /\ q \in [Forwarders -> Places]
         /\ \A f \in Forwarders : q[f] # p[f] => p[f] = "asleep" /\ q[f] = "woken"
  BY DEF SignalFill, Asleep, Places

(* Append changes nobody's place but a sleeper's, and keeps the list. *)
LEMMA AppendPlaces ==
  ASSUME NEW p \in [Forwarders -> Places], NEW c, AppendToList(c, p)
  PROVE  /\ pc' \in [Forwarders -> Places]
         /\ \A f \in Forwarders : pc'[f] # p[f] => p[f] = "asleep" /\ pc'[f] = "woken"
  BY SignalWakes DEF AppendToList

LEMMA AppendList ==
  ASSUME ids \in Seq(Clients), exist \in SUBSET Clients, ListOK,
         NEW p, NEW c \in Clients, AppendToList(c, p)
  PROVE  ids' \in Seq(Clients) /\ exist' \in SUBSET Clients /\ ListOK'
<1>1. CASE c \in exist
  BY <1>1 DEF AppendToList, listVars, ListOK, Listed
<1>2. CASE c \notin exist
  <2>1. ids' = Append(ids, c) /\ exist' = exist \cup {c}
    BY <1>2 DEF AppendToList
  <2>2. Len(ids') = Len(ids) + 1 /\ \A i \in 1..Len(ids) : ids'[i] = ids[i]
    BY <2>1
  <2>3. ids'[Len(ids) + 1] = c /\ Len(ids) \in Nat
    BY <2>1
  <2>4. \A i \in 1..Len(ids) : ids[i] # c
    BY <1>2 DEF ListOK, Listed
  <2>5. \A i, j \in 1..Len(ids') : i # j => ids'[i] # ids'[j]
    BY <2>2, <2>3, <2>4 DEF ListOK, Listed
  <2>6. exist' = {ids'[i] : i \in 1..Len(ids')}
    BY <2>1, <2>2, <2>3 DEF ListOK, Listed
  <2> QED BY <2>1, <2>5, <2>6 DEF ListOK, Listed
<1> QED BY <1>1, <1>2

LEMMA WokenNat == \A p : IsFiniteSet(Woken(p)) /\ Cardinality(Woken(p)) \in Nat
  BY SchedulerAssumption, FS_Subset, FS_CardinalityType DEF Woken

(* The number of awakened forwarders when one more is woken. *)
LEMMA OneMoreWoken ==
  ASSUME NEW p \in [Forwarders -> Places], NEW f \in Forwarders, p[f] # "woken"
  PROVE  /\ Woken([p EXCEPT ![f] = "woken"]) = Woken(p) \cup {f}
         /\ Cardinality(Woken([p EXCEPT ![f] = "woken"])) = Cardinality(Woken(p)) + 1
         /\ Cardinality(Woken(p)) \in Nat
<1>1. Woken([p EXCEPT ![f] = "woken"]) = Woken(p) \cup {f}
  BY DEF Woken, Places
<1>2. f \notin Woken(p)
  BY DEF Woken
<1> QED BY <1>1, <1>2, WokenNat, FS_AddElement

(* The one signal of Append is enough for the one client it appends. *)
LEMMA AppendWakes ==
  ASSUME ids \in Seq(Clients), NEW p \in [Forwarders -> Places],
         Asleep(p) # {} => Len(ids) <= Cardinality(Woken(p)),
         NEW c \in Clients, AppendToList(c, p)
  PROVE  NoLostWakeup'
<1>1. CASE c \in exist
  BY <1>1 DEF AppendToList, listVars, NoLostWakeup
<1>2. CASE c \notin exist /\ Asleep(p) = {}
  BY <1>2 DEF AppendToList, SignalFill, NoLostWakeup
<1>3. CASE c \notin exist /\ Asleep(p) # {}
  <2>1. PICK f \in Asleep(p) : pc' = [p EXCEPT ![f] = "woken"]
    BY <1>3 DEF AppendToList, SignalFill
  <2>2. Len(ids') = Len(ids) + 1 /\ Len(ids) \in Nat
    BY <1>3 DEF AppendToList
  <2>3. Cardinality(Woken(pc')) = Cardinality(Woken(p)) + 1
        /\ Cardinality(Woken(p)) \in Nat
    BY <2>1, OneMoreWoken DEF Asleep
  <2> QED BY <1>3, <2>2, <2>3 DEF NoLostWakeup
<1> QED BY <1>1, <1>2, <1>3

-----------------------------------------------------------------------------
(* Types *)

LEMMA TypeInit == Init => TypeOK
<1> SUFFICES ASSUME Init PROVE TypeOK
  OBVIOUS
<1>1. RoundTicks \div Cardinality(ClientIds) \in Nat
  BY FirstQuantumNat
<1>2. quantum \in [Clients -> Nat]
  BY <1>1 DEF Init
<1> QED BY <1>2, SchedulerAssumption DEF Init, TypeOK, Places, Packet

LEMMA TypeStep == IInv /\ [Next]_vars => TypeOK'
<1> SUFFICES ASSUME IInv, [Next]_vars PROVE TypeOK'
  OBVIOUS
<1> USE DEF IInv
<1>1. ASSUME NEW c \in Clients, NEW len \in Lens, Enqueue(c, len) PROVE TypeOK'
  <2>1. oseq[c] + 1 \in 1..MaxSeq /\ oseq' \in [Clients -> 0..MaxSeq]
    <3>1. oseq[c] \in 0..MaxSeq /\ oseq[c] < MaxSeq /\ MaxSeq \in Nat
      BY <1>1, SchedulerAssumption DEF Enqueue, TypeOK
    <3>2. oseq[c] + 1 \in 1..MaxSeq
      BY <3>1
    <3>3. oseq[c] + 1 \in 0..MaxSeq
      BY <3>1
    <3> QED BY <1>1, <3>2, <3>3 DEF Enqueue, TypeOK
  <2>2. [seq |-> oseq[c] + 1, len |-> len] \in Packet
    BY <2>1 DEF Packet
  <2>3. CASE IsFull(c)
    BY <1>1, <2>1, <2>3 DEF Enqueue, TypeOK, listVars, statsVars, fwdVars
  <2>4. CASE ~IsFull(c)
    <3>1. queues' = [queues EXCEPT ![c] = Append(@, [seq |-> oseq[c] + 1, len |-> len])]
      BY <1>1, <2>4 DEF Enqueue, Pushed
    <3>2. queues' \in [Clients -> Seq(Packet)]
      BY <2>2, <3>1 DEF TypeOK
    <3>3. Len(queues[c]) < MaxSize
      BY <2>4, SchedulerAssumption DEF IsFull, TypeOK
    <3>4. \A d \in Clients : Len(queues'[d]) <= MaxSize
      BY <3>1, <3>3, SchedulerAssumption DEF TypeOK
    <3> QED BY <1>1, <2>1, <2>4, <3>2, <3>4
            DEF Enqueue, TypeOK, listVars, statsVars, fwdVars
  <2> QED BY <2>3, <2>4
<1>2. ASSUME EnqueueAppend PROVE TypeOK'
  BY <1>2, SchedulerAssumption, AppendPlaces, AppendList
  DEF EnqueueAppend, TypeOK, statsVars
<1>3. ASSUME NEW f \in Forwarders, WaitFill(f) PROVE TypeOK'
  BY <1>3 DEF WaitFill, TypeOK, Places, listVars, statsVars
<1>4. ASSUME NEW f \in Forwarders, SpuriousWakeup(f) PROVE TypeOK'
  BY <1>4 DEF SpuriousWakeup, TypeOK, Places, listVars, statsVars
<1>5. ASSUME NEW f \in Forwarders, RemoveFromList(f) PROVE TypeOK'
  <2>1. Head(ids) \in Clients /\ Tail(ids) \in Seq(Clients)
    BY <1>5 DEF RemoveFromList, TypeOK
  <2>2. cur' \in [Forwarders -> Clients \cup {NoClient}]
    BY <1>5, <2>1 DEF RemoveFromList, TypeOK
  <2> QED BY <1>5, <2>1, <2>2 DEF RemoveFromList, TypeOK, Places, statsVars
<1>6. ASSUME NEW f \in Forwarders, StartRound(f) PROVE TypeOK'
  <2>1. cur[f] \in Clients
    BY <1>6 DEF StartRound, TypeOK
  <2>2. RoundTime(cur[f]) \in Nat
    <3>1. counter[cur[f]] \in Nat /\ quantum[cur[f]] \in Nat
      BY <2>1 DEF TypeOK
    <3> QED BY <3>1 DEF RoundTime
  <2>3. counter' \in [Clients -> Nat]
    BY <1>6, <2>2 DEF StartRound, TypeOK
  <2>4. pkts' \in [Forwarders -> Seq(Packet)]
    BY <1>6 DEF StartRound, TypeOK
  <2> QED BY <1>6, <2>3, <2>4 DEF StartRound, TypeOK, Places, listVars
<1>7. ASSUME NEW f \in Forwarders, SkipClient(f) PROVE TypeOK'
  BY <1>7 DEF SkipClient, TypeOK, Places, listVars, statsVars
<1>8. ASSUME NEW f \in Forwarders, Peek(f) PROVE TypeOK'
  <2>1. PeekTopPktSize(cur[f]) \in Lens \cup {0}
    <3>1. cur[f] \in Clients
      BY <1>8 DEF Peek, HandOK, Holding, TypeOK
    <3>2. queues[cur[f]] \in Seq(Packet)
      BY <3>1 DEF TypeOK
    <3>3. queues[cur[f]] # <<>> => Head(queues[cur[f]]) \in Packet
      BY <3>2
    <3> QED BY <3>3 DEF PeekTopPktSize, Packet
  <2> QED BY <1>8, <2>1 DEF Peek, TypeOK, Places, listVars, statsVars
<1>9. ASSUME NEW f \in Forwarders, Pop(f) PROVE TypeOK'
  <2> DEFINE c == cur[f]
  <2>1. c \in Clients /\ c \in served /\ queues[c] # <<>> /\ queues[c] \in Seq(Packet)
    BY <1>9 DEF Pop, HandOK, PopIsSafe, Holding, TypeOK
  <2>2. queues' \in [Clients -> Seq(Packet)]
    BY <1>9, <2>1 DEF Pop, PopFront, TypeOK
  <2>3. \A d \in Clients : Len(queues'[d]) <= MaxSize
    BY <1>9, <2>1, SchedulerAssumption DEF Pop, PopFront, TypeOK
  <2>4. pkts' \in [Forwarders -> Seq(Packet)]
    BY <1>9, <2>1 DEF Pop, TypeOK
  <2>5. Duration(top[f], throughput[c]) \in Nat
    <3>1. top[f] \in Nat /\ throughput[c] \in Nat /\ throughput[c] > 0
      <4>1. top[f] \in Nat
        BY LenNat DEF TypeOK
      <4>2. throughput[c] \in Nat /\ throughput[c] > 0
        BY <2>1 DEF TypeOK
      <4> QED BY <4>1, <4>2
    <3> QED BY <3>1, DurationNat
  <2>6. counter' \in [Clients -> Nat]
    <3>1. counter[c] \in Nat /\ counter[c] >= Duration(top[f], throughput[c])
      BY <1>9, <2>1 DEF Pop, TypeOK, PopIsSafe, Affords
    <3>2. Charged(c, top[f]) \in Nat
      BY <2>5, <3>1 DEF Charged
    <3> QED BY <1>9, <3>2 DEF Pop, TypeOK
  <2> QED BY <1>9, <2>2, <2>3, <2>4, <2>6 DEF Pop, TypeOK, Places, listVars
<1>10. ASSUME NEW f \in Forwarders, FinishEmpty(f) PROVE TypeOK'
  BY <1>10 DEF FinishEmpty, AfterRound, TypeOK, Places, listVars
<1>11. ASSUME NEW f \in Forwarders, FinishBacklogged(f) PROVE TypeOK'
  <2>1. AfterRound(f) \in [Forwarders -> Places]
    BY DEF AfterRound, TypeOK, Places
  <2>2. cur[f] \in Clients
    BY <1>11 DEF FinishBacklogged, HandOK, Holding, TypeOK
  <2> QED BY <1>11, <2>1, <2>2, AppendPlaces, AppendList
          DEF FinishBacklogged, TypeOK, statsVars
<1>12. ASSUME NEW f \in Forwarders, Send(f) PROVE TypeOK'
  <2>1. pkts[f] \in Seq(Packet) /\ pkts[f] # <<>>
    BY <1>12 DEF Send, HandOK, TypeOK
  <2>2. NextOfBatch(f).seq \in 0..MaxSeq
    <3>1. Head(pkts[f]) \in Packet
      BY <2>1
    <3> QED BY <3>1, SchedulerAssumption DEF NextOfBatch, Packet
  <2>3. lastSent' \in [Clients -> 0..MaxSeq]
    BY <1>12, <2>2 DEF Send, TypeOK
  <2>4. pkts' \in [Forwarders -> Seq(Packet)]
    BY <1>12, <2>1 DEF Send, TypeOK
  <2> QED BY <1>12, <2>3, <2>4 DEF Send, TypeOK, Places, listVars, statsVars
<1>13. ASSUME NEW thr \in ThroughputMaps, BeginCompute(thr) PROVE TypeOK'
  <2>1. PICK S \in ClientSets : thr \in [S -> Throughputs]
    BY DEF ThroughputMaps
  <2>2. DOMAIN thr \subseteq Clients /\ \A c \in DOMAIN thr : thr[c] \in Nat \ {0}
    BY <2>1, SchedulerAssumption
  <2> QED BY <1>13, <2>2
          DEF BeginCompute, FreshCounters, TypeOK, listVars, fwdVars
<1>14. ASSUME NEW c \in Clients, ClearQueue(c) PROVE TypeOK'
  <2>1. queues' \in [Clients -> Seq(Packet)]
    BY <1>14 DEF ClearQueue, TypeOK
  <2>2. \A d \in Clients : Len(queues'[d]) <= MaxSize
    BY <1>14, SchedulerAssumption DEF ClearQueue, TypeOK
  <2> QED BY <1>14, <2>1, <2>2
          DEF ClearQueue, TypeOK, listVars, statsVars, fwdVars
<1>15. ASSUME EndCompute PROVE TypeOK'
  <2>1. Rates \in ThroughputMaps /\ DOMAIN Rates = served
    BY <1>15 DEF EndCompute, StatsOK, Rates
  <2>2. Quantum(Rates) \in [served -> Nat]
    BY <2>1, QuantumAssumption
  <2>3. quantum' \in [Clients -> Nat]
    BY <1>15, <2>2 DEF EndCompute, TypeOK
  <2> QED BY <1>15, <2>3 DEF EndCompute, TypeOK, listVars, fwdVars
<1>16. CASE UNCHANGED vars
  BY <1>16 DEF vars, TypeOK, listVars, statsVars, fwdVars
<1> QED BY <1>1, <1>2, <1>3, <1>4, <1>5, <1>6, <1>7, <1>8, <1>9, <1>10, <1>11, <1>12,
           <1>13, <1>14, <1>15, <1>16
        DEF Next, ReadTunStep, ForwarderStep, ComputeRoutesStep

-----------------------------------------------------------------------------
(* lock_ *)

LEMMA LockInit == Init => LockOK /\ HandOK /\ StatsOK
  BY SchedulerAssumption DEF Init, LockOK, HandOK, StatsOK, Holding

(* What the steps of AppendToList do to the forwarders' places. *)
LEMMA BackloggedPlaces ==
  ASSUME TypeOK, NEW f \in Forwarders, FinishBacklogged(f)
  PROVE  /\ pc' \in [Forwarders -> Places]
         /\ pc'[f] \in {"remove", "send"}
         /\ pc'[f] = "send" => pkts[f] # <<>>
         /\ \A g \in Forwarders \ {f} :
              pc'[g] # pc[g] => pc[g] = "asleep" /\ pc'[g] = "woken"
<1>1. AfterRound(f) \in [Forwarders -> Places]
  BY DEF AfterRound, TypeOK, Places
<1>2. \A g \in Forwarders : pc'[g] # AfterRound(f)[g] =>
        AfterRound(f)[g] = "asleep" /\ pc'[g] = "woken"
  BY <1>1, AppendPlaces DEF FinishBacklogged
<1>3. pc' \in [Forwarders -> Places]
  BY <1>1, AppendPlaces DEF FinishBacklogged
<1>4. AfterRound(f)[f] \in {"remove", "send"}
      /\ (AfterRound(f)[f] = "send" => pkts[f] # <<>>)
  BY DEF AfterRound, TypeOK
<1>5. \A g \in Forwarders \ {f} : AfterRound(f)[g] = pc[g]
  BY DEF AfterRound, TypeOK
<1> QED BY <1>2, <1>3, <1>4, <1>5

LEMMA LockStep == IInv /\ [Next]_vars => LockOK'
<1> SUFFICES ASSUME IInv, [Next]_vars PROVE LockOK'
  OBVIOUS
<1>0. /\ LockOK /\ pc \in [Forwarders -> Places]
      /\ NoThread \notin Forwarders /\ ComputeRoutes \notin Forwarders
  BY SchedulerAssumption DEF IInv, TypeOK
<1>1. ASSUME NEW c \in Clients, NEW len \in Lens, Enqueue(c, len) PROVE LockOK'
  BY <1>0, <1>1 DEF Enqueue, LockOK, Holding, listVars, statsVars, fwdVars
<1>2. ASSUME EnqueueAppend PROVE LockOK'
  BY <1>0, <1>2, AppendPlaces DEF EnqueueAppend, LockOK, Holding, statsVars
<1>3. ASSUME NEW f \in Forwarders, WaitFill(f) PROVE LockOK'
  BY <1>0, <1>3 DEF WaitFill, LockOK, Holding, listVars, statsVars, fwdVars
<1>4. ASSUME NEW f \in Forwarders, SpuriousWakeup(f) PROVE LockOK'
  BY <1>0, <1>4
  DEF SpuriousWakeup, LockOK, Holding, listVars, statsVars, fwdVars
<1>5. ASSUME NEW f \in Forwarders, RemoveFromList(f) PROVE LockOK'
  BY <1>0, <1>5
  DEF RemoveFromList, LockOK, Holding, listVars, statsVars, fwdVars
<1>6. ASSUME NEW f \in Forwarders, StartRound(f) PROVE LockOK'
  BY <1>0, <1>6
  DEF StartRound, LockIsFree, LockOK, Holding, listVars, statsVars, fwdVars
<1>7. ASSUME NEW f \in Forwarders, SkipClient(f) PROVE LockOK'
  BY <1>0, <1>7 DEF SkipClient, LockOK, Holding, listVars, statsVars, fwdVars
<1>8. ASSUME NEW f \in Forwarders, Peek(f) PROVE LockOK'
  BY <1>0, <1>8 DEF Peek, LockOK, Holding, listVars, statsVars, fwdVars
<1>9. ASSUME NEW f \in Forwarders, Pop(f) PROVE LockOK'
  BY <1>0, <1>9 DEF Pop, LockOK, Holding, listVars, statsVars, fwdVars
<1>10. ASSUME NEW f \in Forwarders, FinishEmpty(f) PROVE LockOK'
  BY <1>0, <1>10 DEF FinishEmpty, AfterRound, LockOK, Holding, listVars
<1>11. ASSUME NEW f \in Forwarders, FinishBacklogged(f) PROVE LockOK'
  BY <1>0, <1>11, BackloggedPlaces
  DEF FinishBacklogged, IInv, LockOK, Holding, statsVars
<1>12. ASSUME NEW f \in Forwarders, Send(f) PROVE LockOK'
  BY <1>0, <1>12 DEF Send, LockOK, Holding, listVars, statsVars, fwdVars
<1>13. ASSUME NEW thr \in ThroughputMaps, BeginCompute(thr) PROVE LockOK'
  BY <1>0, <1>13
  DEF BeginCompute, LockIsFree, LockOK, Holding, listVars, statsVars, fwdVars
<1>14. ASSUME NEW c \in Clients, ClearQueue(c) PROVE LockOK'
  BY <1>0, <1>14 DEF ClearQueue, LockOK, Holding, listVars, statsVars, fwdVars
<1>15. ASSUME EndCompute PROVE LockOK'
  BY <1>0, <1>15 DEF EndCompute, LockOK, Holding, listVars, statsVars, fwdVars
<1>16. CASE UNCHANGED vars
  BY <1>0, <1>16 DEF vars, LockOK, Holding, listVars, statsVars, fwdVars
<1> QED BY <1>1, <1>2, <1>3, <1>4, <1>5, <1>6, <1>7, <1>8, <1>9, <1>10, <1>11, <1>12,
           <1>13, <1>14, <1>15, <1>16
        DEF Next, ReadTunStep, ForwarderStep, ComputeRoutesStep

LEMMA HandStep == IInv /\ [Next]_vars => HandOK'
<1> SUFFICES ASSUME IInv, [Next]_vars PROVE HandOK'
  OBVIOUS
<1>0. /\ HandOK /\ LockOK
      /\ pc \in [Forwarders -> Places] /\ cur \in [Forwarders -> Clients \cup {NoClient}]
      /\ pkts \in [Forwarders -> Seq(Packet)] /\ served \in SUBSET Clients
  BY DEF IInv, TypeOK
<1>1. ASSUME NEW c \in Clients, NEW len \in Lens, Enqueue(c, len) PROVE HandOK'
  BY <1>0, <1>1 DEF Enqueue, HandOK, Holding, listVars, statsVars, fwdVars
<1>2. ASSUME EnqueueAppend PROVE HandOK'
  BY <1>0, <1>2, AppendPlaces DEF EnqueueAppend, HandOK, Holding, statsVars
<1>3. ASSUME NEW f \in Forwarders, WaitFill(f) PROVE HandOK'
  BY <1>0, <1>3 DEF WaitFill, HandOK, Holding, listVars, statsVars, fwdVars
<1>4. ASSUME NEW f \in Forwarders, SpuriousWakeup(f) PROVE HandOK'
  BY <1>0, <1>4
  DEF SpuriousWakeup, HandOK, Holding, listVars, statsVars, fwdVars
<1>5. ASSUME NEW f \in Forwarders, RemoveFromList(f) PROVE HandOK'
  <2>1. Head(ids) \in Clients
    BY <1>5 DEF RemoveFromList, IInv, TypeOK
  <2> QED BY <1>0, <1>5, <2>1 DEF RemoveFromList, HandOK, Holding, statsVars
<1>6. ASSUME NEW f \in Forwarders, StartRound(f) PROVE HandOK'
  BY <1>0, <1>6 DEF StartRound, HandOK, Holding, listVars, statsVars, fwdVars
<1>7. ASSUME NEW f \in Forwarders, SkipClient(f) PROVE HandOK'
  BY <1>0, <1>7 DEF SkipClient, HandOK, Holding, listVars, statsVars, fwdVars
<1>8. ASSUME NEW f \in Forwarders, Peek(f) PROVE HandOK'
  BY <1>0, <1>8 DEF Peek, HandOK, Holding, listVars, statsVars, fwdVars
<1>9. ASSUME NEW f \in Forwarders, Pop(f) PROVE HandOK'
  BY <1>0, <1>9 DEF Pop, HandOK, Holding, listVars, statsVars, fwdVars
<1>10. ASSUME NEW f \in Forwarders, FinishEmpty(f) PROVE HandOK'
  BY <1>0, <1>10 DEF FinishEmpty, AfterRound, HandOK, Holding, listVars
<1>11. ASSUME NEW f \in Forwarders, FinishBacklogged(f) PROVE HandOK'
  BY <1>0, <1>11, BackloggedPlaces
  DEF FinishBacklogged, IInv, HandOK, Holding, statsVars
<1>12. ASSUME NEW f \in Forwarders, Send(f) PROVE HandOK'
  <2>1. pc'[f] = "send" => pkts'[f] # <<>>
    <3>1. pkts[f] \in Seq(Packet) /\ pkts[f] # <<>> /\ pkts'[f] = Tail(pkts[f])
      BY <1>0, <1>12 DEF Send, HandOK
    <3>2. pc'[f] = "send" => Len(pkts[f]) # 1
      BY <1>0, <1>12 DEF Send
    <3> QED BY <3>1, <3>2, TailNotEmpty
  <2> QED BY <1>0, <1>12, <2>1 DEF Send, HandOK, Holding, statsVars
<1>13. ASSUME NEW thr \in ThroughputMaps, BeginCompute(thr) PROVE HandOK'
  BY <1>0, <1>13, SchedulerAssumption
  DEF BeginCompute, LockIsFree, LockOK, HandOK, Holding, fwdVars
<1>14. ASSUME NEW c \in Clients, ClearQueue(c) PROVE HandOK'
  BY <1>0, <1>14 DEF ClearQueue, HandOK, Holding, listVars, statsVars, fwdVars
<1>15. ASSUME EndCompute PROVE HandOK'
  BY <1>0, <1>15 DEF EndCompute, HandOK, Holding, listVars, statsVars, fwdVars
<1>16. CASE UNCHANGED vars
  BY <1>0, <1>16 DEF vars, HandOK, Holding, listVars, statsVars, fwdVars
<1> QED BY <1>1, <1>2, <1>3, <1>4, <1>5, <1>6, <1>7, <1>8, <1>9, <1>10, <1>11, <1>12,
           <1>13, <1>14, <1>15, <1>16
        DEF Next, ReadTunStep, ForwarderStep, ComputeRoutesStep

LEMMA StatsStep == IInv /\ [Next]_vars => StatsOK'
<1> SUFFICES ASSUME IInv, [Next]_vars PROVE StatsOK'
  OBVIOUS
<1>0. /\ StatsOK /\ LockOK /\ HandOK /\ NoThread # ComputeRoutes
      /\ ComputeRoutes \notin Forwarders
      /\ owner \in Forwarders \cup {ComputeRoutes, NoThread}
      /\ counter \in [Clients -> Nat] /\ served \in SUBSET Clients
      /\ cur \in [Forwarders -> Clients \cup {NoClient}]
  BY SchedulerAssumption DEF IInv, TypeOK
<1>1. ASSUME NEW c \in Clients, NEW len \in Lens, Enqueue(c, len) PROVE StatsOK'
  BY <1>0, <1>1 DEF Enqueue, StatsOK, Rates, listVars, statsVars, fwdVars
<1>2. ASSUME EnqueueAppend PROVE StatsOK'
  BY <1>0, <1>2, AppendPlaces DEF EnqueueAppend, StatsOK, Rates, statsVars
<1>3. ASSUME NEW f \in Forwarders, WaitFill(f) PROVE StatsOK'
  BY <1>0, <1>3 DEF WaitFill, StatsOK, Rates, listVars, statsVars, fwdVars
<1>4. ASSUME NEW f \in Forwarders, SpuriousWakeup(f) PROVE StatsOK'
  BY <1>0, <1>4 DEF SpuriousWakeup, StatsOK, Rates, listVars, statsVars, fwdVars
<1>5. ASSUME NEW f \in Forwarders, RemoveFromList(f) PROVE StatsOK'
  BY <1>0, <1>5 DEF RemoveFromList, StatsOK, Rates, listVars, statsVars, fwdVars
<1>6. ASSUME NEW f \in Forwarders, StartRound(f) PROVE StatsOK'
  BY <1>0, <1>6 DEF StartRound, LockIsFree, StatsOK
<1>7. ASSUME NEW f \in Forwarders, SkipClient(f) PROVE StatsOK'
  BY <1>0, <1>7 DEF SkipClient, StatsOK, Rates, listVars, statsVars, fwdVars
<1>8. ASSUME NEW f \in Forwarders, Peek(f) PROVE StatsOK'
  BY <1>0, <1>8 DEF Peek, StatsOK, Rates, listVars, statsVars, fwdVars
<1>9. ASSUME NEW f \in Forwarders, Pop(f) PROVE StatsOK'
  BY <1>0, <1>9 DEF Pop, StatsOK, Rates, LockOK, HandOK, Holding
<1>10. ASSUME NEW f \in Forwarders, FinishEmpty(f) PROVE StatsOK'
  BY <1>0, <1>10 DEF FinishEmpty, StatsOK, LockOK, Holding
<1>11. ASSUME NEW f \in Forwarders, FinishBacklogged(f) PROVE StatsOK'
  BY <1>0, <1>11 DEF FinishBacklogged, StatsOK, LockOK, Holding, statsVars
<1>12. ASSUME NEW f \in Forwarders, Send(f) PROVE StatsOK'
  BY <1>0, <1>12 DEF Send, StatsOK, Rates, listVars, statsVars, fwdVars
<1>13. ASSUME NEW thr \in ThroughputMaps, BeginCompute(thr) PROVE StatsOK'
  <2>1. PICK S \in ClientSets : thr \in [S -> Throughputs]
    BY DEF ThroughputMaps
  <2>2. DOMAIN thr \subseteq Clients /\ thr = [c \in DOMAIN thr |-> thr[c]]
    BY <2>1, SchedulerAssumption
  <2>3. Rates' = thr
    BY <1>13, <2>2 DEF BeginCompute, Rates
  <2> QED BY <1>0, <1>13, <2>2, <2>3 DEF BeginCompute, FreshCounters, StatsOK
<1>14. ASSUME NEW c \in Clients, ClearQueue(c) PROVE StatsOK'
  BY <1>0, <1>14 DEF ClearQueue, StatsOK, Rates, listVars, statsVars, fwdVars
<1>15. ASSUME EndCompute PROVE StatsOK'
  BY <1>0, <1>15 DEF EndCompute, StatsOK, Rates, listVars, statsVars, fwdVars
<1>16. CASE UNCHANGED vars
  BY <1>0, <1>16 DEF vars, StatsOK, Rates, listVars, statsVars, fwdVars
<1> QED BY <1>1, <1>2, <1>3, <1>4, <1>5, <1>6, <1>7, <1>8, <1>9, <1>10, <1>11, <1>12,
           <1>13, <1>14, <1>15, <1>16
        DEF Next, ReadTunStep, ForwarderStep, ComputeRoutesStep

-----------------------------------------------------------------------------
(* The list *)

LEMMA ListInit == Init => ListOK
  BY DEF Init, ListOK, Listed

LEMMA ListStep == IInv /\ [Next]_vars => ListOK'
<1> SUFFICES ASSUME IInv, [Next]_vars PROVE ListOK'
  OBVIOUS
<1>0. ListOK
  BY DEF IInv
<1>1. ASSUME NEW c \in Clients, NEW len \in Lens, Enqueue(c, len) PROVE ListOK'
  BY <1>0, <1>1 DEF Enqueue, ListOK, Listed, listVars, statsVars, fwdVars
<1>2. ASSUME EnqueueAppend PROVE ListOK'
  BY <1>2, SchedulerAssumption, AppendList DEF EnqueueAppend, IInv, TypeOK
<1>3. ASSUME NEW f \in Forwarders, WaitFill(f) PROVE ListOK'
  BY <1>0, <1>3 DEF WaitFill, ListOK, Listed, listVars, statsVars, fwdVars
<1>4. ASSUME NEW f \in Forwarders, SpuriousWakeup(f) PROVE ListOK'
  BY <1>0, <1>4 DEF SpuriousWakeup, ListOK, Listed, listVars, statsVars, fwdVars
<1>5. ASSUME NEW f \in Forwarders, RemoveFromList(f) PROVE ListOK'
  <2>1. /\ ids \in Seq(Clients) /\ ids # <<>>
        /\ ids' = Tail(ids) /\ exist' = exist \ {Head(ids)}
    BY <1>5 DEF RemoveFromList, IInv, TypeOK
  <2>2. Len(ids') = Len(ids) - 1 /\ \A i \in 1..Len(ids') : ids'[i] = ids[i + 1]
    BY <2>1
  <2>3. \A i \in 1..Len(ids') : ids'[i] # Head(ids)
    BY <1>0, <2>1, <2>2 DEF ListOK, Listed
  <2>4. \A i \in 2..Len(ids) : ids[i] = ids'[i - 1] /\ i - 1 \in 1..Len(ids')
    BY <2>1, <2>2
  <2>5. exist' = {ids'[i] : i \in 1..Len(ids')}
    <3>1. exist' \subseteq {ids'[i] : i \in 1..Len(ids')}
      <4> SUFFICES ASSUME NEW c \in exist' PROVE c \in {ids'[i] : i \in 1..Len(ids')}
        OBVIOUS
      <4>1. PICK i \in 1..Len(ids) : c = ids[i]
        BY <1>0, <2>1 DEF ListOK, Listed
      <4>2. i \in 2..Len(ids)
        BY <2>1, <4>1
      <4> QED BY <2>4, <4>1, <4>2
    <3>2. {ids'[i] : i \in 1..Len(ids')} \subseteq exist'
      BY <1>0, <2>1, <2>2, <2>3 DEF ListOK, Listed
    <3> QED BY <3>1, <3>2
  <2>6. \A i, j \in 1..Len(ids') : i # j => ids'[i] # ids'[j]
    BY <1>0, <2>1, <2>2 DEF ListOK, Listed
  <2> QED BY <2>5, <2>6 DEF ListOK, Listed
<1>6. ASSUME NEW f \in Forwarders, StartRound(f) PROVE ListOK'
  BY <1>0, <1>6 DEF StartRound, ListOK, Listed, listVars, statsVars, fwdVars
<1>7. ASSUME NEW f \in Forwarders, SkipClient(f) PROVE ListOK'
  BY <1>0, <1>7 DEF SkipClient, ListOK, Listed, listVars, statsVars, fwdVars
<1>8. ASSUME NEW f \in Forwarders, Peek(f) PROVE ListOK'
  BY <1>0, <1>8 DEF Peek, ListOK, Listed, listVars, statsVars, fwdVars
<1>9. ASSUME NEW f \in Forwarders, Pop(f) PROVE ListOK'
  BY <1>0, <1>9 DEF Pop, ListOK, Listed, listVars, statsVars, fwdVars
<1>10. ASSUME NEW f \in Forwarders, FinishEmpty(f) PROVE ListOK'
  BY <1>0, <1>10 DEF FinishEmpty, ListOK, Listed, listVars, statsVars, fwdVars
<1>11. ASSUME NEW f \in Forwarders, FinishBacklogged(f) PROVE ListOK'
  <2>1. cur[f] \in Clients
    BY <1>11 DEF FinishBacklogged, IInv, HandOK, TypeOK, Holding
  <2> QED BY <1>11, <2>1, AppendList DEF FinishBacklogged, IInv, TypeOK
<1>12. ASSUME NEW f \in Forwarders, Send(f) PROVE ListOK'
  BY <1>0, <1>12 DEF Send, ListOK, Listed, listVars, statsVars, fwdVars
<1>13. ASSUME NEW thr \in ThroughputMaps, BeginCompute(thr) PROVE ListOK'
  BY <1>0, <1>13 DEF BeginCompute, ListOK, Listed, listVars, statsVars, fwdVars
<1>14. ASSUME NEW c \in Clients, ClearQueue(c) PROVE ListOK'
  BY <1>0, <1>14 DEF ClearQueue, ListOK, Listed, listVars, statsVars, fwdVars
<1>15. ASSUME EndCompute PROVE ListOK'
  BY <1>0, <1>15 DEF EndCompute, ListOK, Listed, listVars, statsVars, fwdVars
<1>16. CASE UNCHANGED vars
  BY <1>0, <1>16 DEF vars, ListOK, Listed, listVars, statsVars, fwdVars
<1> QED BY <1>1, <1>2, <1>3, <1>4, <1>5, <1>6, <1>7, <1>8, <1>9, <1>10, <1>11, <1>12,
           <1>13, <1>14, <1>15, <1>16
        DEF Next, ReadTunStep, ForwarderStep, ComputeRoutesStep

-----------------------------------------------------------------------------
(* What a round has seen of its queue stays true until the round acts on it *)

LEMMA RoundInit == Init => PopIsSafe /\ BackloggedIsShort /\ CreditCarried /\ NoLostWakeup
  BY DEF Init, PopIsSafe, BackloggedIsShort, CreditCarried, NoLostWakeup, Asleep

(* Appending to a queue does not change the packet at its head. *)
LEMMA EnqueueKeepsHead ==
  ASSUME TypeOK, NEW c \in Clients, NEW len \in Lens, Enqueue(c, len),
         NEW d \in Clients, queues[d] # <<>>
  PROVE  queues'[d] # <<>> /\ Head(queues'[d]) = Head(queues[d])
<1>1. queues[d] \in Seq(Packet)
  BY DEF TypeOK
<1>2. CASE queues'[d] = queues[d]
  BY <1>2
<1>3. CASE queues'[d] # queues[d]
  <2>1. PICK p : queues'[d] = Append(queues[d], p)
    BY <1>3 DEF Enqueue, Pushed, TypeOK
  <2> QED BY <1>1, <2>1
<1> QED BY <1>2, <1>3

LEMMA PopStep == IInv /\ [Next]_vars => PopIsSafe'
<1> SUFFICES ASSUME IInv, [Next]_vars PROVE PopIsSafe'
  OBVIOUS
<1>0. /\ PopIsSafe /\ BackloggedIsShort /\ CreditCarried
      /\ LockOK /\ HandOK /\ StatsOK /\ TypeOK
      /\ NoThread \notin Forwarders /\ ComputeRoutes \notin Forwarders
  BY SchedulerAssumption DEF IInv
<1>1. ASSUME NEW c \in Clients, NEW len \in Lens, Enqueue(c, len) PROVE PopIsSafe'
  <2> SUFFICES ASSUME NEW f \in Forwarders, pc'[f] = "pop"
               PROVE  /\ queues'[cur'[f]] # <<>>
                      /\ Head(queues'[cur'[f]]).len = top'[f]
                      /\ Affords(cur[f], top[f])'
    BY DEF PopIsSafe
  <2>1. /\ pc[f] = "pop" /\ cur'[f] = cur[f] /\ top'[f] = top[f]
        /\ UNCHANGED <<counter, throughput>>
    BY <1>1 DEF Enqueue, fwdVars, statsVars
  <2>2. cur[f] \in Clients
    BY <1>0, <2>1 DEF HandOK, Holding, TypeOK
  <2> QED BY <1>0, <1>1, <2>1, <2>2, EnqueueKeepsHead DEF PopIsSafe, Affords
<1>2. ASSUME EnqueueAppend PROVE PopIsSafe'
  BY <1>0, <1>2, AppendPlaces
  DEF EnqueueAppend, TypeOK, PopIsSafe, Affords, statsVars
<1>3. ASSUME NEW f \in Forwarders, WaitFill(f) PROVE PopIsSafe'
  BY <1>0, <1>3
  DEF WaitFill, TypeOK, PopIsSafe, Affords, listVars, statsVars, fwdVars
<1>4. ASSUME NEW f \in Forwarders, SpuriousWakeup(f) PROVE PopIsSafe'
  BY <1>0, <1>4
  DEF SpuriousWakeup, TypeOK, PopIsSafe, Affords, listVars, statsVars, fwdVars
<1>5. ASSUME NEW f \in Forwarders, RemoveFromList(f) PROVE PopIsSafe'
  BY <1>0, <1>5
  DEF RemoveFromList, TypeOK, PopIsSafe, Affords, listVars, statsVars, fwdVars
<1>6. ASSUME NEW f \in Forwarders, StartRound(f) PROVE PopIsSafe'
  BY <1>0, <1>6
  DEF StartRound, LockIsFree, LockOK, HandOK, StatsOK, Holding, TypeOK,
     PopIsSafe, Affords, listVars, statsVars, fwdVars
<1>7. ASSUME NEW f \in Forwarders, SkipClient(f) PROVE PopIsSafe'
  BY <1>0, <1>7
  DEF SkipClient, TypeOK, PopIsSafe, Affords, listVars, statsVars, fwdVars
<1>8. ASSUME NEW f \in Forwarders, Peek(f) PROVE PopIsSafe'
  <2>1. cur[f] \in Clients /\ queues[cur[f]] \in Seq(Packet)
    BY <1>0, <1>8 DEF Peek, HandOK, Holding, TypeOK
  <2>2. PeekTopPktSize(cur[f]) > 0 =>
          queues[cur[f]] # <<>> /\ Head(queues[cur[f]]).len = PeekTopPktSize(cur[f])
    BY <2>1 DEF PeekTopPktSize
  <2> QED BY <1>0, <1>8, <2>2 DEF Peek, PopIsSafe, Affords, TypeOK, statsVars
<1>9. ASSUME NEW f \in Forwarders, Pop(f) PROVE PopIsSafe'
  BY <1>0, <1>9 DEF Pop, LockIsFree, LockOK, HandOK, StatsOK, Holding, TypeOK,
     PopIsSafe, Affords, listVars, statsVars, fwdVars
<1>10. ASSUME NEW f \in Forwarders, FinishEmpty(f) PROVE PopIsSafe'
  BY <1>0, <1>10
  DEF FinishEmpty, AfterRound, LockOK, Holding, TypeOK, PopIsSafe, Affords,
      listVars
<1>11. ASSUME NEW f \in Forwarders, FinishBacklogged(f) PROVE PopIsSafe'
  <2>1. \A g \in Forwarders : pc'[g] = "pop" => pc[g] = "pop" /\ g # f
    BY <1>0, <1>11, BackloggedPlaces
  <2>2. \A g \in Forwarders \ {f} : top'[g] = top[g]
    BY <1>0, <1>11 DEF FinishBacklogged, TypeOK
  <2> QED BY <1>0, <1>11, <2>1, <2>2
          DEF FinishBacklogged, PopIsSafe, Affords, statsVars
<1>12. ASSUME NEW f \in Forwarders, Send(f) PROVE PopIsSafe'
  BY <1>0, <1>12
  DEF Send, TypeOK, PopIsSafe, Affords, listVars, statsVars, fwdVars
<1>13. ASSUME NEW thr \in ThroughputMaps, BeginCompute(thr) PROVE PopIsSafe'
  BY <1>0, <1>13
  DEF BeginCompute, LockIsFree, LockOK, HandOK, StatsOK, Holding, TypeOK,
     PopIsSafe, Affords, listVars, statsVars, fwdVars
<1>14. ASSUME NEW c \in Clients, ClearQueue(c) PROVE PopIsSafe'
  BY <1>0, <1>14
  DEF ClearQueue, LockIsFree, LockOK, HandOK, StatsOK, Holding, TypeOK,
     PopIsSafe, Affords, listVars, statsVars, fwdVars
<1>15. ASSUME EndCompute PROVE PopIsSafe'
  BY <1>0, <1>15
  DEF EndCompute, TypeOK, PopIsSafe, Affords, listVars, statsVars, fwdVars
<1>16. CASE UNCHANGED vars
  BY <1>0, <1>16
  DEF vars, TypeOK, PopIsSafe, Affords, listVars, statsVars, fwdVars
<1> QED BY <1>1, <1>2, <1>3, <1>4, <1>5, <1>6, <1>7, <1>8, <1>9, <1>10, <1>11, <1>12,
           <1>13, <1>14, <1>15, <1>16
        DEF Next, ReadTunStep, ForwarderStep, ComputeRoutesStep

LEMMA BackloggedStep == IInv /\ [Next]_vars => BackloggedIsShort'
<1> SUFFICES ASSUME IInv, [Next]_vars PROVE BackloggedIsShort'
  OBVIOUS
<1>0. /\ PopIsSafe /\ BackloggedIsShort /\ CreditCarried
      /\ LockOK /\ HandOK /\ StatsOK /\ TypeOK
      /\ NoThread \notin Forwarders /\ ComputeRoutes \notin Forwarders
  BY SchedulerAssumption DEF IInv
<1>1. ASSUME NEW c \in Clients, NEW len \in Lens, Enqueue(c, len) PROVE BackloggedIsShort'
  <2> SUFFICES ASSUME NEW f \in Forwarders, pc'[f] = "finish", top'[f] > 0
               PROVE  ShortOfTime(cur[f])' /\ Head(queues'[cur'[f]]).len = top'[f]
    BY DEF BackloggedIsShort
  <2>1. /\ pc[f] = "finish" /\ cur'[f] = cur[f] /\ top'[f] = top[f]
        /\ UNCHANGED <<counter, throughput>>
    BY <1>1 DEF Enqueue, fwdVars, statsVars
  <2>2. cur[f] \in Clients
    BY <1>0, <2>1 DEF HandOK, Holding, TypeOK
  <2> QED BY <1>0, <1>1, <2>1, <2>2, EnqueueKeepsHead
          DEF BackloggedIsShort, ShortOfTime, Affords
<1>2. ASSUME EnqueueAppend PROVE BackloggedIsShort'
  BY <1>0, <1>2, AppendPlaces
  DEF EnqueueAppend, TypeOK, BackloggedIsShort, ShortOfTime, Affords,
      statsVars
<1>3. ASSUME NEW f \in Forwarders, WaitFill(f) PROVE BackloggedIsShort'
  BY <1>0, <1>3
  DEF WaitFill, TypeOK, BackloggedIsShort, ShortOfTime, Affords, listVars,
      statsVars, fwdVars
<1>4. ASSUME NEW f \in Forwarders, SpuriousWakeup(f) PROVE BackloggedIsShort'
  BY <1>0, <1>4
  DEF SpuriousWakeup, TypeOK, BackloggedIsShort, ShortOfTime, Affords,
      listVars, statsVars, fwdVars
<1>5. ASSUME NEW f \in Forwarders, RemoveFromList(f) PROVE BackloggedIsShort'
  BY <1>0, <1>5
  DEF RemoveFromList, TypeOK, BackloggedIsShort, ShortOfTime, Affords,
      listVars, statsVars, fwdVars
<1>6. ASSUME NEW f \in Forwarders, StartRound(f) PROVE BackloggedIsShort'
  BY <1>0, <1>6
  DEF StartRound, LockIsFree, LockOK, HandOK, StatsOK, Holding, TypeOK,
     BackloggedIsShort, ShortOfTime, Affords, listVars, statsVars, fwdVars
<1>7. ASSUME NEW f \in Forwarders, SkipClient(f) PROVE BackloggedIsShort'
  BY <1>0, <1>7
  DEF SkipClient, TypeOK, BackloggedIsShort, ShortOfTime, Affords, listVars,
      statsVars, fwdVars
<1>8. ASSUME NEW f \in Forwarders, Peek(f) PROVE BackloggedIsShort'
  <2>1. cur[f] \in Clients /\ queues[cur[f]] \in Seq(Packet)
    BY <1>0, <1>8 DEF Peek, HandOK, Holding, TypeOK
  <2>2. PeekTopPktSize(cur[f]) > 0 =>
          queues[cur[f]] # <<>> /\ Head(queues[cur[f]]).len = PeekTopPktSize(cur[f])
    BY <2>1 DEF PeekTopPktSize
  <2> QED BY <1>0, <1>8, <2>2
          DEF Peek, BackloggedIsShort, ShortOfTime, Affords, TypeOK, statsVars
<1>9. ASSUME NEW f \in Forwarders, Pop(f) PROVE BackloggedIsShort'
  BY <1>0, <1>9 DEF Pop, LockIsFree, LockOK, HandOK, StatsOK, Holding, TypeOK,
     BackloggedIsShort, ShortOfTime, Affords, listVars, statsVars, fwdVars
<1>10. ASSUME NEW f \in Forwarders, FinishEmpty(f) PROVE BackloggedIsShort'
  BY <1>0, <1>10
  DEF FinishEmpty, AfterRound, LockOK, Holding, TypeOK, BackloggedIsShort,
      ShortOfTime, Affords, listVars
<1>11. ASSUME NEW f \in Forwarders, FinishBacklogged(f) PROVE BackloggedIsShort'
  BY <1>0, <1>11, BackloggedPlaces
  DEF FinishBacklogged, LockOK, Holding, BackloggedIsShort, ShortOfTime,
      Affords, statsVars
<1>12. ASSUME NEW f \in Forwarders, Send(f) PROVE BackloggedIsShort'
  BY <1>0, <1>12
  DEF Send, TypeOK, BackloggedIsShort, ShortOfTime, Affords, listVars,
      statsVars, fwdVars
<1>13. ASSUME NEW thr \in ThroughputMaps, BeginCompute(thr) PROVE BackloggedIsShort'
  BY <1>0, <1>13
  DEF BeginCompute, LockIsFree, LockOK, HandOK, StatsOK, Holding, TypeOK,
     BackloggedIsShort, ShortOfTime, Affords, listVars, statsVars, fwdVars
<1>14. ASSUME NEW c \in Clients, ClearQueue(c) PROVE BackloggedIsShort'
  BY <1>0, <1>14
  DEF ClearQueue, LockIsFree, LockOK, HandOK, StatsOK, Holding, TypeOK,
     BackloggedIsShort, ShortOfTime, Affords, listVars, statsVars, fwdVars
<1>15. ASSUME EndCompute PROVE BackloggedIsShort'
  BY <1>0, <1>15
  DEF EndCompute, TypeOK, BackloggedIsShort, ShortOfTime, Affords, listVars,
      statsVars, fwdVars
<1>16. CASE UNCHANGED vars
  BY <1>0, <1>16
  DEF vars, TypeOK, BackloggedIsShort, ShortOfTime, Affords, listVars,
      statsVars, fwdVars
<1> QED BY <1>1, <1>2, <1>3, <1>4, <1>5, <1>6, <1>7, <1>8, <1>9, <1>10, <1>11, <1>12,
           <1>13, <1>14, <1>15, <1>16
        DEF Next, ReadTunStep, ForwarderStep, ComputeRoutesStep

LEMMA CreditStep == IInv /\ [Next]_vars => CreditCarried'
<1> SUFFICES ASSUME IInv, [Next]_vars PROVE CreditCarried'
  OBVIOUS
<1>0. /\ PopIsSafe /\ BackloggedIsShort /\ CreditCarried
      /\ LockOK /\ HandOK /\ StatsOK /\ TypeOK
      /\ NoThread \notin Forwarders /\ ComputeRoutes \notin Forwarders
  BY SchedulerAssumption DEF IInv
<1>1. ASSUME NEW c \in Clients, NEW len \in Lens, Enqueue(c, len) PROVE CreditCarried'
  <2> SUFFICES ASSUME NEW d \in Clients,
                      \A f \in Forwarders : owner' = f => cur'[f] # d,
                      counter'[d] # 0
               PROVE  ShortOfTime(d)'
    BY DEF CreditCarried
  <2>1. UNCHANGED <<owner, cur, counter, throughput>>
    BY <1>1 DEF Enqueue, fwdVars, statsVars
  <2>2. ShortOfTime(d)
    BY <1>0, <2>1 DEF CreditCarried
  <2> QED BY <1>0, <1>1, <2>1, <2>2, EnqueueKeepsHead DEF ShortOfTime, Affords
<1>2. ASSUME EnqueueAppend PROVE CreditCarried'
  BY <1>0, <1>2, AppendPlaces
  DEF EnqueueAppend, TypeOK, CreditCarried, ShortOfTime, Affords, statsVars
<1>3. ASSUME NEW f \in Forwarders, WaitFill(f) PROVE CreditCarried'
  BY <1>0, <1>3
  DEF WaitFill, TypeOK, CreditCarried, ShortOfTime, Affords, listVars,
      statsVars, fwdVars
<1>4. ASSUME NEW f \in Forwarders, SpuriousWakeup(f) PROVE CreditCarried'
  BY <1>0, <1>4
  DEF SpuriousWakeup, TypeOK, CreditCarried, ShortOfTime, Affords, listVars,
      statsVars, fwdVars
<1>5. ASSUME NEW f \in Forwarders, RemoveFromList(f) PROVE CreditCarried'
  BY <1>0, <1>5 DEF RemoveFromList, LockOK, Holding, TypeOK,
     CreditCarried, ShortOfTime, Affords, statsVars
<1>6. ASSUME NEW f \in Forwarders, StartRound(f) PROVE CreditCarried'
  BY <1>0, <1>6
  DEF StartRound, LockIsFree, LockOK, HandOK, StatsOK, Holding, TypeOK,
     CreditCarried, ShortOfTime, Affords, listVars, statsVars, fwdVars
<1>7. ASSUME NEW f \in Forwarders, SkipClient(f) PROVE CreditCarried'
  BY <1>0, <1>7
  DEF SkipClient, TypeOK, CreditCarried, ShortOfTime, Affords, listVars,
      statsVars, fwdVars
<1>8. ASSUME NEW f \in Forwarders, Peek(f) PROVE CreditCarried'
  BY <1>0, <1>8 DEF Peek, LockIsFree, LockOK, HandOK, StatsOK, Holding, TypeOK,
     CreditCarried, ShortOfTime, Affords, listVars, statsVars, fwdVars
<1>9. ASSUME NEW f \in Forwarders, Pop(f) PROVE CreditCarried'
  BY <1>0, <1>9 DEF Pop, LockIsFree, LockOK, HandOK, StatsOK, Holding, TypeOK,
     CreditCarried, ShortOfTime, Affords, listVars, statsVars, fwdVars
<1>10. ASSUME NEW f \in Forwarders, FinishEmpty(f) PROVE CreditCarried'
  BY <1>0, <1>10
  DEF FinishEmpty, AfterRound, LockOK, Holding, TypeOK, CreditCarried,
      ShortOfTime, Affords, listVars
<1>11. ASSUME NEW f \in Forwarders, FinishBacklogged(f) PROVE CreditCarried'
  BY <1>0, <1>11 DEF FinishBacklogged, LockOK, Holding, BackloggedIsShort,
     CreditCarried, ShortOfTime, Affords, statsVars
<1>12. ASSUME NEW f \in Forwarders, Send(f) PROVE CreditCarried'
  BY <1>0, <1>12
  DEF Send, TypeOK, CreditCarried, ShortOfTime, Affords, listVars, statsVars,
      fwdVars
<1>13. ASSUME NEW thr \in ThroughputMaps, BeginCompute(thr) PROVE CreditCarried'
  BY <1>0, <1>13 DEF BeginCompute, FreshCounters, CreditCarried
<1>14. ASSUME NEW c \in Clients, ClearQueue(c) PROVE CreditCarried'
  BY <1>0, <1>14
  DEF ClearQueue, LockIsFree, LockOK, HandOK, StatsOK, Holding, TypeOK,
     CreditCarried, ShortOfTime, Affords, listVars, statsVars, fwdVars
<1>15. ASSUME EndCompute PROVE CreditCarried'
  BY <1>0, <1>15
  DEF EndCompute, TypeOK, CreditCarried, ShortOfTime, Affords, listVars,
      statsVars, fwdVars
<1>16. CASE UNCHANGED vars
  BY <1>0, <1>16
  DEF vars, TypeOK, CreditCarried, ShortOfTime, Affords, listVars, statsVars,
      fwdVars
<1> QED BY <1>1, <1>2, <1>3, <1>4, <1>5, <1>6, <1>7, <1>8, <1>9, <1>10, <1>11, <1>12,
           <1>13, <1>14, <1>15, <1>16
        DEF Next, ReadTunStep, ForwarderStep, ComputeRoutesStep

LEMMA WakeStep == IInv /\ [Next]_vars => NoLostWakeup'
<1> SUFFICES ASSUME IInv, [Next]_vars PROVE NoLostWakeup'
  OBVIOUS
<1>0. NoLostWakeup /\ pc \in [Forwarders -> Places] /\ ids \in Seq(Clients)
  BY DEF IInv, TypeOK
<1>1. ASSUME NEW c \in Clients, NEW len \in Lens, Enqueue(c, len) PROVE NoLostWakeup'
  BY <1>0, <1>1 DEF Enqueue, NoLostWakeup, listVars, statsVars, fwdVars
<1>2. ASSUME EnqueueAppend PROVE NoLostWakeup'
  <2>1. pend \in Clients /\ AppendToList(pend, pc)
    BY <1>2 DEF EnqueueAppend, IInv, TypeOK
  <2> QED BY <1>0, <2>1, AppendWakes DEF NoLostWakeup
<1>3. ASSUME NEW f \in Forwarders, WaitFill(f) PROVE NoLostWakeup'
  <2>1. Len(ids') = 0
    BY <1>0, <1>3 DEF WaitFill, listVars
  <2> QED BY <2>1, WokenNat DEF NoLostWakeup
<1>4. ASSUME NEW f \in Forwarders, SpuriousWakeup(f) PROVE NoLostWakeup'
  <2>1. pc' = [pc EXCEPT ![f] = "woken"] /\ pc[f] = "asleep" /\ UNCHANGED ids
    BY <1>4 DEF SpuriousWakeup, listVars
  <2>2. Cardinality(Woken(pc')) = Cardinality(Woken(pc)) + 1
        /\ Cardinality(Woken(pc)) \in Nat /\ Len(ids) \in Nat
    <3>1. pc[f] # "woken"
      BY <2>1
    <3>2. Cardinality(Woken([pc EXCEPT ![f] = "woken"])) = Cardinality(Woken(pc)) + 1
      BY <1>0, <3>1, OneMoreWoken
    <3>3. Len(ids) \in Nat
      BY <1>0
    <3> QED BY <2>1, <3>2, <3>3, WokenNat
  <2> QED BY <1>0, <2>1, <2>2 DEF NoLostWakeup, Asleep
<1>5. ASSUME NEW f \in Forwarders, RemoveFromList(f) PROVE NoLostWakeup'
  <2>1. Asleep(pc') \subseteq Asleep(pc)
    BY <1>0, <1>5 DEF RemoveFromList, Asleep
  <2>2. Len(ids') = Len(ids) - 1 /\ Len(ids) \in Nat
    BY <1>0, <1>5 DEF RemoveFromList
  <2>3. CASE pc[f] = "remove"
    <3>1. Woken(pc') = Woken(pc)
      BY <1>0, <1>5, <2>3 DEF RemoveFromList, Woken
    <3> QED BY <1>0, <2>1, <2>2, <3>1, WokenNat DEF NoLostWakeup
  <2>4. CASE pc[f] = "woken"
    <3>1. Woken(pc) = Woken(pc') \cup {f} /\ f \notin Woken(pc')
      BY <1>0, <1>5, <2>4 DEF RemoveFromList, Woken
    <3>2. Cardinality(Woken(pc)) = Cardinality(Woken(pc')) + 1
          /\ Cardinality(Woken(pc')) \in Nat
      BY <3>1, WokenNat, FS_AddElement
    <3> QED BY <1>0, <2>1, <2>2, <3>2 DEF NoLostWakeup
  <2> QED BY <1>5, <2>3, <2>4 DEF RemoveFromList
<1>6. ASSUME NEW f \in Forwarders, StartRound(f) PROVE NoLostWakeup'
  <2>1. Asleep(pc') = Asleep(pc) /\ Woken(pc') = Woken(pc) /\ UNCHANGED ids
    BY <1>0, <1>6 DEF StartRound, Asleep, Woken, listVars
  <2> QED BY <1>0, <2>1 DEF NoLostWakeup
<1>7. ASSUME NEW f \in Forwarders, SkipClient(f) PROVE NoLostWakeup'
  <2>1. Asleep(pc') = Asleep(pc) /\ Woken(pc') = Woken(pc) /\ UNCHANGED ids
    BY <1>0, <1>7 DEF SkipClient, Asleep, Woken, listVars
  <2> QED BY <1>0, <2>1 DEF NoLostWakeup
<1>8. ASSUME NEW f \in Forwarders, Peek(f) PROVE NoLostWakeup'
  <2>1. Asleep(pc') = Asleep(pc) /\ Woken(pc') = Woken(pc) /\ UNCHANGED ids
    BY <1>0, <1>8 DEF Peek, Asleep, Woken, listVars
  <2> QED BY <1>0, <2>1 DEF NoLostWakeup
<1>9. ASSUME NEW f \in Forwarders, Pop(f) PROVE NoLostWakeup'
  <2>1. Asleep(pc') = Asleep(pc) /\ Woken(pc') = Woken(pc) /\ UNCHANGED ids
    BY <1>0, <1>9 DEF Pop, Asleep, Woken, listVars
  <2> QED BY <1>0, <2>1 DEF NoLostWakeup
<1>10. ASSUME NEW f \in Forwarders, FinishEmpty(f) PROVE NoLostWakeup'
  <2>1. Asleep(pc') = Asleep(pc) /\ Woken(pc') = Woken(pc) /\ UNCHANGED ids
    BY <1>0, <1>10 DEF FinishEmpty, AfterRound, Asleep, Woken, listVars
  <2> QED BY <1>0, <2>1 DEF NoLostWakeup
<1>11. ASSUME NEW f \in Forwarders, FinishBacklogged(f) PROVE NoLostWakeup'
  <2>1. AfterRound(f) \in [Forwarders -> Places]
    BY <1>0 DEF AfterRound, Places
  <2>2. Asleep(AfterRound(f)) = Asleep(pc) /\ Woken(AfterRound(f)) = Woken(pc)
    BY <1>0, <1>11 DEF FinishBacklogged, AfterRound, Asleep, Woken
  <2>3. cur[f] \in Clients
    BY <1>11 DEF FinishBacklogged, IInv, HandOK, Holding, TypeOK
  <2> QED BY <1>0, <1>11, <2>1, <2>2, <2>3, AppendWakes
          DEF FinishBacklogged, NoLostWakeup
<1>12. ASSUME NEW f \in Forwarders, Send(f) PROVE NoLostWakeup'
  <2>1. Asleep(pc') = Asleep(pc) /\ Woken(pc') = Woken(pc) /\ UNCHANGED ids
    BY <1>0, <1>12 DEF Send, Asleep, Woken, listVars
  <2> QED BY <1>0, <2>1 DEF NoLostWakeup
<1>13. ASSUME NEW thr \in ThroughputMaps, BeginCompute(thr) PROVE NoLostWakeup'
  BY <1>0, <1>13 DEF BeginCompute, NoLostWakeup, listVars, statsVars, fwdVars
<1>14. ASSUME NEW c \in Clients, ClearQueue(c) PROVE NoLostWakeup'
  BY <1>0, <1>14 DEF ClearQueue, NoLostWakeup, listVars, statsVars, fwdVars
<1>15. ASSUME EndCompute PROVE NoLostWakeup'
  BY <1>0, <1>15 DEF EndCompute, NoLostWakeup, listVars, statsVars, fwdVars
<1>16. CASE UNCHANGED vars
  BY <1>0, <1>16 DEF vars, NoLostWakeup, listVars, statsVars, fwdVars
<1> QED BY <1>1, <1>2, <1>3, <1>4, <1>5, <1>6, <1>7, <1>8, <1>9, <1>10, <1>11, <1>12,
           <1>13, <1>14, <1>15, <1>16
        DEF Next, ReadTunStep, ForwarderStep, ComputeRoutesStep

-----------------------------------------------------------------------------
(* The theorems *)

(* IInv holds of every reachable state. *)
THEOREM Invariance == Spec => []IInv
<1>1. Init => IInv
  BY TypeInit, LockInit, ListInit, RoundInit DEF IInv
<1>2. IInv /\ [Next]_vars => IInv'
  BY TypeStep, LockStep, HandStep, StatsStep, ListStep,
     PopStep, BackloggedStep, CreditStep, WakeStep DEF IInv
<1> QED BY <1>1, <1>2, PTL DEF Spec

(* The types of PktScheduler's state, queues within their capacity among   *)
(* them, hold however the threads interleave.                              *)
THEOREM TypeCorrect == Spec => []TypeOK
<1>1. IInv => TypeOK
  BY DEF IInv
<1> QED BY <1>1, Invariance, PTL

(* The assertion of PktQueue::Dequeue never fails, and Dequeue charges a   *)
(* client for the packet it takes and only if the client can pay.          *)
THEOREM DequeueIsSafe == Spec => []PopIsSafe
<1>1. IInv => PopIsSafe
  BY DEF IInv
<1> QED BY <1>1, Invariance, PTL

(* Between its rounds a client carries less time than its top packet costs. *)
THEOREM CreditIsBounded == Spec => []CreditCarried
<1>1. IInv => CreditCarried
  BY DEF IInv
<1> QED BY <1>1, Invariance, PTL

(* One signal for each client appended wakes enough forwarders.            *)
THEOREM NoWakeupIsLost == Spec => []NoLostWakeup
<1>1. IInv => NoLostWakeup
  BY DEF IInv
<1> QED BY <1>1, Invariance, PTL

-----------------------------------------------------------------------------
(* A domain no client leaves *)

(* The contention domain of the scheduler serves every client at all times. *)
NobodyLeaves == ClientIds = Clients /\ \A S \in ClientSets : S = Clients

(* NotStranded, as long as exist_ is the set of the listed clients. *)
Tracked ==
  \A c \in Clients :
    queues[c] # <<>> =>
      \/ c \in exist
      \/ pend = c
      \/ \E f \in Forwarders : InHand(f, c)

StayInv == served = Clients /\ toClear = {} /\ Tracked

LEMMA StayStep ==
  ASSUME NobodyLeaves,
         IInv, StayInv, [Next]_vars
  PROVE  StayInv'
<1>0. /\ served = Clients /\ toClear = {} /\ Tracked
      /\ LockOK /\ HandOK /\ TypeOK
      /\ NoClient \notin Clients
  BY SchedulerAssumption DEF IInv, StayInv
<1>1. ASSUME NEW c \in Clients, NEW len \in Lens, Enqueue(c, len) PROVE StayInv'
  <2>1. \A d \in Clients : queues'[d] # queues[d] => pend' = d
    BY <1>0, <1>1 DEF Enqueue, TypeOK
  <2> QED BY <1>0, <1>1, <2>1
          DEF Enqueue, Pushed, StayInv, Tracked, InHand, listVars, statsVars,
              fwdVars
<1>2. ASSUME EnqueueAppend PROVE StayInv'
  <2>1. pend \in Clients /\ AppendToList(pend, pc)
    BY <1>0, <1>2 DEF EnqueueAppend, TypeOK
  <2>2. pend \in exist' /\ exist \subseteq exist'
    BY <2>1 DEF AppendToList, listVars
  <2>3. \A f \in Forwarders : pc'[f] # pc[f] => pc[f] = "asleep"
    BY <1>0, <2>1, AppendPlaces DEF TypeOK
  <2> QED BY <1>0, <1>2, <2>2, <2>3
          DEF EnqueueAppend, StayInv, Tracked, InHand, statsVars
<1>3. ASSUME NEW f \in Forwarders, WaitFill(f) PROVE StayInv'
  <2>1. \A g \in Forwarders, c \in Clients : InHand(g, c) => InHand(g, c)'
    BY <1>0, <1>3 DEF WaitFill, InHand, TypeOK
  <2> QED BY <1>0, <1>3, <2>1
          DEF WaitFill, StayInv, Tracked, listVars, statsVars
<1>4. ASSUME NEW f \in Forwarders, SpuriousWakeup(f) PROVE StayInv'
  <2>1. \A g \in Forwarders, c \in Clients : InHand(g, c) => InHand(g, c)'
    BY <1>0, <1>4 DEF SpuriousWakeup, InHand, TypeOK
  <2> QED BY <1>0, <1>4, <2>1
          DEF SpuriousWakeup, StayInv, Tracked, listVars, statsVars
<1>5. ASSUME NEW f \in Forwarders, RemoveFromList(f) PROVE StayInv'
  <2>1. \A c \in Clients : ~InHand(f, c)
    BY <1>5 DEF RemoveFromList, InHand
  <2>2. \A g \in Forwarders \ {f} :
          pc'[g] = pc[g] /\ cur'[g] = cur[g] /\ top'[g] = top[g]
    BY <1>0, <1>5 DEF RemoveFromList, TypeOK
  <2>3. \A g \in Forwarders, c \in Clients : InHand(g, c) => InHand(g, c)'
    BY <2>1, <2>2 DEF InHand
  <2>4. \A c \in Clients : c = Head(ids) => InHand(f, c)'
    <3>1. cur'[f] = Head(ids) /\ pc'[f] = "lock"
      BY <1>0, <1>5 DEF RemoveFromList, TypeOK
    <3> QED BY <3>1 DEF InHand
  <2>5. exist' = exist \ {Head(ids)} /\ UNCHANGED <<queues, served, toClear, pend>>
    BY <1>5 DEF RemoveFromList, statsVars
  <2> QED BY <1>0, <2>3, <2>4, <2>5 DEF StayInv, Tracked
<1>6. ASSUME NEW f \in Forwarders, StartRound(f) PROVE StayInv'
  <2>1. \A g \in Forwarders, c \in Clients : InHand(g, c) => InHand(g, c)'
    BY <1>0, <1>6 DEF StartRound, InHand, TypeOK
  <2> QED BY <1>0, <1>6, <2>1 DEF StartRound, StayInv, Tracked, listVars
<1>7. ASSUME NEW f \in Forwarders, SkipClient(f) PROVE StayInv'
  BY <1>0, <1>7 DEF SkipClient, HandOK
<1>8. ASSUME NEW f \in Forwarders, Peek(f) PROVE StayInv'
  <2>1. cur[f] \in Clients /\ queues[cur[f]] \in Seq(Packet)
    BY <1>0, <1>8 DEF Peek, HandOK, Holding, TypeOK
  <2>2. queues[cur[f]] # <<>> => PeekTopPktSize(cur[f]) > 0
    <3>1. queues[cur[f]] # <<>> => Head(queues[cur[f]]) \in Packet
      BY <2>1
    <3>2. \A p \in Packet : p.len \in Nat /\ p.len > 0
      <4>1. \A p \in Packet : p.len \in Lens
        BY DEF Packet
      <4>2. \A len \in Lens : len \in Nat /\ len > 0
        BY SchedulerAssumption
      <4> QED BY <4>1, <4>2
    <3> QED BY <3>1, <3>2 DEF PeekTopPktSize
  <2>3. \A g \in Forwarders \ {f} :
          pc'[g] = pc[g] /\ cur'[g] = cur[g] /\ top'[g] = top[g]
    BY <1>0, <1>8 DEF Peek, TypeOK
  <2>4. queues[cur[f]] # <<>> => InHand(f, cur[f])'
    BY <1>0, <1>8, <2>2 DEF Peek, InHand, TypeOK
  <2>5. \A g \in Forwarders, c \in Clients :
          InHand(g, c) /\ queues[c] # <<>> => InHand(g, c)'
    <3>1. \A g \in Forwarders \ {f}, c \in Clients : InHand(g, c) => InHand(g, c)'
      BY <2>3 DEF InHand
    <3>2. \A c \in Clients : InHand(f, c) /\ queues[c] # <<>> => InHand(f, c)'
      <4>1. cur' = cur
        BY <1>8 DEF Peek
      <4> QED BY <2>4, <4>1 DEF InHand
    <3> QED BY <3>1, <3>2
  <2> QED BY <1>0, <1>8, <2>5
          DEF Peek, StayInv, Tracked, listVars, statsVars
<1>9. ASSUME NEW f \in Forwarders, Pop(f) PROVE StayInv'
  <2>1. \A g \in Forwarders, c \in Clients : InHand(g, c) => InHand(g, c)'
    BY <1>0, <1>9 DEF Pop, InHand, TypeOK
  <2>2. InHand(f, cur[f])'
    BY <1>0, <1>9 DEF Pop, InHand, TypeOK
  <2>3. \A c \in Clients : queues'[c] # queues[c] => c = cur[f]
    BY <1>0, <1>9 DEF Pop, TypeOK
  <2> QED BY <1>0, <1>9, <2>1, <2>2, <2>3
          DEF Pop, StayInv, Tracked, listVars
<1>10. ASSUME NEW f \in Forwarders, FinishEmpty(f) PROVE StayInv'
  <2>1. \A c \in Clients : ~InHand(f, c)
    BY <1>10 DEF FinishEmpty, InHand
  <2>2. \A g \in Forwarders \ {f} :
          pc'[g] = pc[g] /\ cur'[g] = cur[g] /\ top'[g] = top[g]
    BY <1>0, <1>10 DEF FinishEmpty, AfterRound, TypeOK
  <2>3. \A g \in Forwarders, c \in Clients : InHand(g, c) => InHand(g, c)'
    BY <2>1, <2>2 DEF InHand
  <2> QED BY <1>0, <1>10, <2>3 DEF FinishEmpty, StayInv, Tracked, listVars
<1>11. ASSUME NEW f \in Forwarders, FinishBacklogged(f) PROVE StayInv'
  <2>1. cur[f] \in exist' /\ exist \subseteq exist'
    BY <1>11 DEF FinishBacklogged, AppendToList, listVars
  <2>2. \A g \in Forwarders \ {f} : pc'[g] # pc[g] => pc[g] = "asleep"
    BY <1>0, <1>11, BackloggedPlaces
  <2>3. \A g \in Forwarders \ {f} : top'[g] = top[g] /\ cur'[g] = cur[g]
    BY <1>0, <1>11 DEF FinishBacklogged, TypeOK
  <2> QED BY <1>0, <1>11, <2>1, <2>2, <2>3
          DEF FinishBacklogged, StayInv, Tracked, InHand, statsVars
<1>12. ASSUME NEW f \in Forwarders, Send(f) PROVE StayInv'
  <2>1. \A g \in Forwarders, c \in Clients : InHand(g, c) => InHand(g, c)'
    BY <1>0, <1>12 DEF Send, InHand, TypeOK
  <2> QED BY <1>0, <1>12, <2>1
          DEF Send, StayInv, Tracked, listVars, statsVars
<1>13. ASSUME NEW thr \in ThroughputMaps, BeginCompute(thr) PROVE StayInv'
  <2>1. DOMAIN thr = Clients
    BY <1>0 DEF ThroughputMaps, NobodyLeaves
  <2>2. hasQueue \in SUBSET Clients
    BY <1>0 DEF TypeOK
  <2> QED BY <1>0, <1>13, <2>1, <2>2
          DEF BeginCompute, StayInv, Tracked, InHand, listVars, fwdVars
<1>14. ASSUME NEW c \in Clients, ClearQueue(c) PROVE StayInv'
  BY <1>0, <1>14 DEF ClearQueue
<1>15. ASSUME EndCompute PROVE StayInv'
  BY <1>0, <1>15
  DEF EndCompute, TypeOK, StayInv, Tracked, InHand, listVars, statsVars,
      fwdVars
<1>16. CASE UNCHANGED vars
  BY <1>0, <1>16
  DEF vars, TypeOK, StayInv, Tracked, InHand, listVars, statsVars, fwdVars
<1> QED BY <1>1, <1>2, <1>3, <1>4, <1>5, <1>6, <1>7, <1>8, <1>9, <1>10, <1>11, <1>12,
           <1>13, <1>14, <1>15, <1>16
        DEF Next, ReadTunStep, ForwarderStep, ComputeRoutesStep

(* In a domain no client leaves, packets never wait for another arrival:   *)
(* their client is in the active list, in a forwarder's hand or about to   *)
(* be appended.                                                            *)
THEOREM NobodyIsStranded ==
  ASSUME NobodyLeaves
  PROVE  Spec => []NotStranded
<1>1. Init => StayInv
  BY DEF NobodyLeaves, Init, StayInv, Tracked
<1>2. IInv /\ StayInv /\ [Next]_vars => StayInv'
  BY StayStep
<1>3. IInv /\ StayInv => NotStranded
  BY DEF IInv, ListOK, StayInv, Tracked, NotStranded
<1> QED BY <1>1, <1>2, <1>3, Invariance, PTL DEF Spec

-----------------------------------------------------------------------------
(* The order of a client's packets: from the queue into the batches of the *)
(* forwarders and out to the base stations.  BatchSent and InOrder are     *)
(* inductive together with IInv.                                           *)

Numbers(s) == {s[i].seq : i \in 1..Len(s)}

Below(A, B) == \A m \in A, n \in B : m < n

(* A forwarder without a round has sent its batch. *)
BatchSent ==
  \A f \in Forwarders :
    pc[f] \in {"remove", "asleep", "woken", "lock"} => pkts[f] = <<>>

(* HandedOnce by the numbers, which ReadTun has all given. *)
InOrder ==
  \A c \in Clients :
    /\ Increasing(queues[c]) /\ \A n \in Numbers(queues[c]) : n <= oseq[c]
    /\ \A f \in Forwarders : cur[f] = c =>
         /\ Increasing(pkts[f]) /\ \A n \in Numbers(pkts[f]) : n <= oseq[c]
         /\ Below(Numbers(pkts[f]), Numbers(queues[c]))
    /\ \A f, g \in Forwarders : f # g /\ cur[f] = c /\ cur[g] = c =>
         Numbers(pkts[f]) \cap Numbers(pkts[g]) = {}

OneForwarder == \A f, g \in Forwarders : f = g

(* What waits was numbered after the last packet sent. *)
SentBefore ==
  \A c \in Clients :
    /\ lastSent[c] <= oseq[c]
    /\ \A n \in Numbers(queues[c]) : lastSent[c] < n
    /\ \A f \in Forwarders : cur[f] = c => \A n \in Numbers(pkts[f]) : lastSent[c] < n

-----------------------------------------------------------------------------
(* Numbers and order of sequences of packets *)

LEMMA NumbersType ==
  ASSUME NEW s \in Seq(Packet)
  PROVE  Numbers(s) \subseteq Nat
<1>1. \A i \in 1..Len(s) : s[i] \in Packet
  OBVIOUS
<1>2. \A p \in Packet : p.seq \in Nat
  BY SchedulerAssumption DEF Packet
<1> QED BY <1>1, <1>2 DEF Numbers

LEMMA EmptyOrder == Numbers(<<>>) = {} /\ Increasing(<<>>)
  BY DEF Numbers, Increasing

LEMMA AppendOrder ==
  ASSUME NEW s \in Seq(Packet), NEW p \in Packet
  PROVE  /\ Numbers(Append(s, p)) = Numbers(s) \cup {p.seq}
         /\ Increasing(s) /\ (\A n \in Numbers(s) : n < p.seq) => Increasing(Append(s, p))
<1> DEFINE r == Append(s, p)
<1>1. /\ Len(s) \in Nat /\ Len(r) = Len(s) + 1 /\ r[Len(s) + 1] = p
      /\ \A i \in 1..Len(s) : r[i] = s[i]
  BY AppendProperties
<1>2. \A i \in 1..Len(s) + 1 : i \in 1..Len(s) \/ i = Len(s) + 1
  BY <1>1
<1>3. \A i \in 1..Len(s) : i \in 1..Len(s) + 1 /\ i < Len(s) + 1 /\ ~(Len(s) + 1 < i)
  BY <1>1
<1>4. Len(s) + 1 \in 1..Len(s) + 1 /\ ~(Len(s) + 1 < Len(s) + 1)
  BY <1>1
<1> HIDE DEF r
<1>5. Numbers(r) = Numbers(s) \cup {p.seq}
  BY <1>1, <1>2, <1>3, <1>4 DEF Numbers
<1>6. ASSUME Increasing(s), \A n \in Numbers(s) : n < p.seq,
             NEW i \in 1..Len(s) + 1, NEW j \in 1..Len(s) + 1, i < j
      PROVE  r[i].seq < r[j].seq
  <2>1. i \in 1..Len(s)
    BY <1>2, <1>3, <1>4, <1>6
  <2>2. CASE j \in 1..Len(s)
    BY <1>1, <1>6, <2>1, <2>2 DEF Increasing
  <2>3. CASE j = Len(s) + 1
    BY <1>1, <1>6, <2>1, <2>3 DEF Numbers
  <2> QED BY <1>2, <2>2, <2>3
<1> QED BY <1>1, <1>5, <1>6 DEF r, Increasing

LEMMA TailOrder ==
  ASSUME NEW s \in Seq(Packet), s # <<>>
  PROVE  /\ Head(s) \in Packet /\ Tail(s) \in Seq(Packet)
         /\ Numbers(s) = Numbers(Tail(s)) \cup {Head(s).seq}
         /\ Increasing(s) => /\ Increasing(Tail(s))
                             /\ \A n \in Numbers(Tail(s)) : Head(s).seq < n
<1> DEFINE r == Tail(s)
<1>1. /\ Head(s) \in Packet /\ r \in Seq(Packet) /\ Len(r) = Len(s) - 1
      /\ Len(s) \in Nat \ {0} /\ Head(s) = s[1]
      /\ \A i \in 1..Len(r) : r[i] = s[i + 1]
  BY HeadTailProperties, LenProperties, EmptySeq
<1>2. \A i \in 1..Len(s) : i = 1 \/ (i - 1 \in 1..Len(s) - 1 /\ (i - 1) + 1 = i)
  BY <1>1
<1>3. \A i \in 1..Len(s) - 1 : i + 1 \in 1..Len(s) /\ 1 < i + 1
  BY <1>1
<1>4. \A i, j \in 1..Len(s) - 1 : i < j => i + 1 < j + 1
  BY <1>1
<1>5. 1 \in 1..Len(s)
  BY <1>1
<1> HIDE DEF r
<1>6. Numbers(s) = Numbers(r) \cup {Head(s).seq}
  <2>1. ASSUME NEW n \in Numbers(s) PROVE n \in Numbers(r) \cup {Head(s).seq}
    <3>1. PICK i \in 1..Len(s) : n = s[i].seq
      BY DEF Numbers
    <3>2. CASE i = 1
      BY <1>1, <3>1, <3>2
    <3>3. CASE i # 1
      <4>1. i - 1 \in 1..Len(r) /\ r[i - 1] = s[i]
        BY <1>1, <1>2, <3>3
      <4> QED BY <3>1, <4>1 DEF Numbers
    <3> QED BY <3>2, <3>3
  <2>2. Numbers(r) \subseteq Numbers(s)
    BY <1>1, <1>3 DEF Numbers
  <2>3. Head(s).seq \in Numbers(s)
    BY <1>1, <1>5 DEF Numbers
  <2> QED BY <2>1, <2>2, <2>3
<1>7. ASSUME Increasing(s) PROVE Increasing(r)
  BY <1>1, <1>3, <1>4, <1>7 DEF Increasing
<1>8. ASSUME Increasing(s), NEW n \in Numbers(r) PROVE Head(s).seq < n
  <2>1. PICK i \in 1..Len(s) - 1 : n = s[i + 1].seq
    BY <1>1 DEF Numbers
  <2> QED BY <1>1, <1>3, <1>5, <1>8, <2>1 DEF Increasing
<1> QED BY <1>1, <1>6, <1>7, <1>8 DEF r

LEMMA ConcatOrder ==
  ASSUME NEW s \in Seq(Packet), NEW t \in Seq(Packet),
         Increasing(s), Increasing(t), Below(Numbers(s), Numbers(t))
  PROVE  Increasing(s \o t)
<1> DEFINE r == s \o t
<1>1. /\ Len(s) \in Nat /\ Len(t) \in Nat /\ Len(r) = Len(s) + Len(t)
      /\ \A i \in 1..Len(s) + Len(t) : r[i] = IF i <= Len(s) THEN s[i] ELSE t[i - Len(s)]
  BY ConcatProperties, LenProperties
<1> HIDE DEF r
<1> SUFFICES ASSUME NEW i \in 1..Len(s) + Len(t), NEW j \in 1..Len(s) + Len(t), i < j
             PROVE  r[i].seq < r[j].seq
  BY <1>1 DEF Increasing, r
<1>2. i \in Nat /\ j \in Nat /\ Len(s) \in Nat /\ Len(t) \in Nat /\ i > 0 /\ j > 0
      /\ i <= Len(s) + Len(t) /\ j <= Len(s) + Len(t)
  BY <1>1
<1>3. CASE j <= Len(s)
  <2>1. i \in 1..Len(s) /\ j \in 1..Len(s) /\ i <= Len(s)
    BY <1>2, <1>3
  <2> QED BY <1>1, <1>3, <2>1 DEF Increasing
<1>4. CASE i <= Len(s) /\ ~(j <= Len(s))
  <2>1. i \in 1..Len(s) /\ j - Len(s) \in 1..Len(t)
    BY <1>2, <1>4
  <2> QED BY <1>1, <1>4, <2>1 DEF Numbers, Below
<1>5. CASE ~(i <= Len(s))
  <2>1. i - Len(s) \in 1..Len(t) /\ j - Len(s) \in 1..Len(t) /\ ~(j <= Len(s))
        /\ i - Len(s) < j - Len(s)
    BY <1>2, <1>5
  <2> QED BY <1>1, <1>5, <2>1 DEF Increasing
<1> QED BY <1>3, <1>4, <1>5

-----------------------------------------------------------------------------
(* The steps that touch packets *)

LEMMA EnqueueOrder ==
  ASSUME TypeOK, NEW c \in Clients, NEW len \in Lens, Enqueue(c, len), NEW d \in Clients
  PROVE  /\ oseq'[d] \in Nat /\ oseq[d] \in Nat /\ oseq'[d] >= oseq[d]
         /\ \/ queues'[d] = queues[d]
            \/ \E p \in Packet : queues'[d] = Append(queues[d], p)
                                 /\ p.seq = oseq[d] + 1 /\ oseq'[d] = oseq[d] + 1
<1>1. /\ oseq' = [oseq EXCEPT ![c] = @ + 1] /\ oseq[c] < MaxSeq
      /\ \A e \in Clients : oseq[e] \in Nat
  BY SchedulerAssumption DEF Enqueue, TypeOK
<1>2. oseq'[d] \in Nat /\ oseq[d] \in Nat /\ oseq'[d] >= oseq[d]
  <2>1. oseq'[d] = oseq[d] \/ oseq'[d] = oseq[d] + 1
    BY <1>1 DEF TypeOK
  <2>2. oseq[d] \in Nat
    BY <1>1
  <2> QED BY <2>1, <2>2
<1>3. CASE d = c /\ queues'[d] # queues[d]
  <2> DEFINE p == [seq |-> oseq[c] + 1, len |-> len]
  <2>1. queues'[d] = Append(queues[d], p)
    BY <1>3 DEF Enqueue, Pushed, TypeOK
  <2>2. p \in Packet
    <3>1. oseq[c] + 1 \in 1..MaxSeq
      BY <1>1, SchedulerAssumption
    <3> QED BY <3>1 DEF Packet
  <2>3. p.seq = oseq[d] + 1 /\ oseq'[d] = oseq[d] + 1
    BY <1>1, <1>3 DEF TypeOK
  <2> QED BY <1>2, <2>1, <2>2, <2>3
<1>4. CASE d # c
  BY <1>2, <1>4 DEF Enqueue, TypeOK
<1> QED BY <1>2, <1>3, <1>4

(* What Pop does, and that there is a packet to take. *)
LEMMA PopOrder ==
  ASSUME IInv, NEW f \in Forwarders, Pop(f)
  PROVE  LET c == cur[f]
             p == Head(queues[c])
         IN  /\ c \in Clients /\ queues[c] # <<>> /\ queues[c] \in Seq(Packet)
             /\ pkts[f] \in Seq(Packet) /\ p \in Packet
             /\ queues'[c] = Tail(queues[c]) /\ pkts'[f] = Append(pkts[f], p)
             /\ \A d \in Clients \ {c} : queues'[d] = queues[d]
             /\ \A g \in Forwarders \ {f} : pkts'[g] = pkts[g]
             /\ cur' = cur /\ oseq' = oseq /\ lastSent' = lastSent
<1>1. cur[f] \in Clients
  BY DEF Pop, IInv, HandOK, Holding, TypeOK
<1>2. queues[cur[f]] # <<>>
  BY DEF Pop, IInv, PopIsSafe
<1>3. queues[cur[f]] \in Seq(Packet) /\ pkts[f] \in Seq(Packet)
  BY <1>1 DEF IInv, TypeOK
<1>4. Head(queues[cur[f]]) \in Packet
  BY <1>2, <1>3, HeadTailProperties
<1>5. queues' = [queues EXCEPT ![cur[f]] = Tail(@)]
      /\ pkts' = [pkts EXCEPT ![f] = Append(@, Head(queues[cur[f]]))]
      /\ cur' = cur /\ oseq' = oseq /\ lastSent' = lastSent
  BY DEF Pop, PopFront
<1> QED BY <1>1, <1>2, <1>3, <1>4, <1>5 DEF IInv, TypeOK

LEMMA SendOrder ==
  ASSUME IInv, NEW f \in Forwarders, Send(f)
  PROVE  LET c == cur[f]
         IN  /\ c \in Clients /\ pkts[f] # <<>> /\ pkts[f] \in Seq(Packet)
             /\ pkts'[f] = Tail(pkts[f]) /\ \A g \in Forwarders \ {f} : pkts'[g] = pkts[g]
             /\ queues' = queues /\ cur' = cur /\ oseq' = oseq
             /\ lastSent' = [lastSent EXCEPT ![c] = Head(pkts[f]).seq]
  BY DEF Send, NextOfBatch, IInv, HandOK, TypeOK

(* The other steps leave the packets where they are. *)
Quiet == UNCHANGED <<queues, pkts, cur, oseq, lastSent>>

LEMMA QuietSteps ==
  ASSUME Next
  PROVE  \/ \E c \in Clients, len \in Lens : Enqueue(c, len)
         \/ \E f \in Forwarders : RemoveFromList(f) \/ StartRound(f) \/ Pop(f) \/ Send(f)
         \/ \E c \in Clients : ClearQueue(c)
         \/ Quiet
  BY DEF Next, ReadTunStep, ForwarderStep, ComputeRoutesStep, EnqueueAppend, WaitFill,
    SpuriousWakeup, SkipClient, Peek, FinishEmpty, FinishBacklogged, BeginCompute, EndCompute,
    Quiet, listVars, statsVars, fwdVars

-----------------------------------------------------------------------------
(* The parts of the invariant after each step *)

LEMMA BatchSentStep == IInv /\ BatchSent /\ [Next]_vars => BatchSent'
<1> SUFFICES ASSUME IInv, BatchSent, [Next]_vars PROVE BatchSent'
  OBVIOUS
<1>0. /\ pc \in [Forwarders -> Places] /\ pkts \in [Forwarders -> Seq(Packet)]
  BY DEF IInv, TypeOK
<1>1. ASSUME NEW c \in Clients, NEW len \in Lens, Enqueue(c, len) PROVE BatchSent'
  BY <1>1 DEF Enqueue, BatchSent, fwdVars
<1>2. ASSUME EnqueueAppend PROVE BatchSent'
  BY <1>0, <1>2, AppendPlaces DEF EnqueueAppend, BatchSent
<1>3. ASSUME NEW f \in Forwarders, WaitFill(f) PROVE BatchSent'
  BY <1>0, <1>3 DEF WaitFill, BatchSent
<1>4. ASSUME NEW f \in Forwarders, SpuriousWakeup(f) PROVE BatchSent'
  BY <1>0, <1>4 DEF SpuriousWakeup, BatchSent
<1>5. ASSUME NEW f \in Forwarders, RemoveFromList(f) PROVE BatchSent'
  BY <1>0, <1>5 DEF RemoveFromList, BatchSent
<1>6. ASSUME NEW f \in Forwarders, StartRound(f) PROVE BatchSent'
  BY <1>0, <1>6 DEF StartRound, BatchSent
<1>7. ASSUME NEW f \in Forwarders, SkipClient(f) PROVE BatchSent'
  BY <1>0, <1>7 DEF SkipClient, BatchSent
<1>8. ASSUME NEW f \in Forwarders, Peek(f) PROVE BatchSent'
  BY <1>0, <1>8 DEF Peek, BatchSent
<1>9. ASSUME NEW f \in Forwarders, Pop(f) PROVE BatchSent'
  BY <1>0, <1>9 DEF Pop, BatchSent
<1>10. ASSUME NEW f \in Forwarders, FinishEmpty(f) PROVE BatchSent'
  BY <1>0, <1>10 DEF FinishEmpty, AfterRound, BatchSent
<1>11. ASSUME NEW f \in Forwarders, FinishBacklogged(f) PROVE BatchSent'
  <2>1. pkts' = pkts
    BY <1>11 DEF FinishBacklogged
  <2>2. AfterRound(f) \in [Forwarders -> Places]
    BY <1>0 DEF AfterRound, Places
  <2>3. \A g \in Forwarders : pc'[g] # AfterRound(f)[g] => AfterRound(f)[g] = "asleep"
    BY <1>11, <2>2, AppendPlaces DEF FinishBacklogged
  <2>4. AfterRound(f)[f] = (IF pkts[f] = <<>> THEN "remove" ELSE "send")
        /\ \A g \in Forwarders \ {f} : AfterRound(f)[g] = pc[g]
    BY <1>0 DEF AfterRound
  <2> QED BY <2>1, <2>3, <2>4 DEF BatchSent
<1>12. ASSUME NEW f \in Forwarders, Send(f) PROVE BatchSent'
  <2>1. /\ pkts[f] # <<>> /\ pkts[f] \in Seq(Packet) /\ pkts'[f] = Tail(pkts[f])
        /\ \A g \in Forwarders \ {f} : pkts'[g] = pkts[g] /\ pc'[g] = pc[g]
        /\ pc'[f] = (IF Len(pkts[f]) = 1 THEN "remove" ELSE "send")
    BY <1>0, <1>12, SendOrder DEF Send
  <2>2. Len(pkts[f]) = 1 => Tail(pkts[f]) = <<>>
    <3>1. Tail(pkts[f]) \in Seq(Packet) /\ Len(Tail(pkts[f])) = Len(pkts[f]) - 1
      BY <2>1, HeadTailProperties
    <3>2. Len(pkts[f]) = 1 => Len(Tail(pkts[f])) = 0
      BY <3>1
    <3> QED BY <3>1, <3>2, EmptySeq
  <2> QED BY <2>1, <2>2 DEF BatchSent
<1>13. ASSUME NEW thr \in ThroughputMaps, BeginCompute(thr) PROVE BatchSent'
  BY <1>13 DEF BeginCompute, BatchSent, fwdVars
<1>14. ASSUME NEW c \in Clients, ClearQueue(c) PROVE BatchSent'
  BY <1>14 DEF ClearQueue, BatchSent, fwdVars
<1>15. ASSUME EndCompute PROVE BatchSent'
  BY <1>15 DEF EndCompute, BatchSent, fwdVars
<1>16. CASE UNCHANGED vars
  BY <1>16 DEF vars, BatchSent, fwdVars
<1> QED BY <1>1, <1>2, <1>3, <1>4, <1>5, <1>6, <1>7, <1>8, <1>9, <1>10, <1>11, <1>12,
           <1>13, <1>14, <1>15, <1>16
        DEF Next, ReadTunStep, ForwarderStep, ComputeRoutesStep

LEMMA PacketTypes ==
  ASSUME IInv
  PROVE  /\ \A c \in Clients : /\ queues[c] \in Seq(Packet)
                               /\ oseq[c] \in Nat /\ lastSent[c] \in Nat
         /\ \A f \in Forwarders : pkts[f] \in Seq(Packet)
<1>1. ASSUME NEW c \in Clients PROVE oseq[c] \in 0..MaxSeq /\ lastSent[c] \in 0..MaxSeq
  BY DEF IInv, TypeOK
<1>2. 0..MaxSeq \subseteq Nat
  BY SchedulerAssumption
<1>3. ASSUME NEW c \in Clients PROVE queues[c] \in Seq(Packet)
  BY DEF IInv, TypeOK
<1>4. ASSUME NEW f \in Forwarders PROVE pkts[f] \in Seq(Packet)
  BY DEF IInv, TypeOK
<1> QED BY <1>1, <1>2, <1>3, <1>4

(* The order of the packets of one client. *)
InOrderOf(c) ==
  /\ Increasing(queues[c]) /\ \A n \in Numbers(queues[c]) : n <= oseq[c]
  /\ \A f \in Forwarders : cur[f] = c =>
       /\ Increasing(pkts[f]) /\ \A n \in Numbers(pkts[f]) : n <= oseq[c]
       /\ Below(Numbers(pkts[f]), Numbers(queues[c]))
  /\ \A f, g \in Forwarders : f # g /\ cur[f] = c /\ cur[g] = c =>
       Numbers(pkts[f]) \cap Numbers(pkts[g]) = {}

LEMMA InOrderStep == IInv /\ BatchSent /\ InOrder /\ [Next]_vars => InOrder'
<1> SUFFICES ASSUME IInv, BatchSent, InOrder, [Next]_vars, NEW c \in Clients
             PROVE  InOrderOf(c)'
  BY DEF InOrder, InOrderOf
<1>0. /\ InOrderOf(c) /\ queues[c] \in Seq(Packet) /\ oseq[c] \in Nat
      /\ \A f \in Forwarders : pkts[f] \in Seq(Packet)
      /\ \A d \in Clients : queues[d] \in Seq(Packet)
  <2>1. InOrderOf(c)
    BY DEF InOrder, InOrderOf
  <2> QED BY <2>1, PacketTypes
<1>1. ASSUME NEW d \in Clients, NEW len \in Lens, Enqueue(d, len) PROVE InOrderOf(c)'
  <2>1. pkts' = pkts /\ cur' = cur
    BY <1>1 DEF Enqueue, fwdVars
  <2>2. oseq'[c] \in Nat /\ oseq[c] \in Nat /\ oseq'[c] >= oseq[c]
    BY <1>1, EnqueueOrder DEF IInv
  <2>3. ASSUME NEW s \in Seq(Packet), \A n \in Numbers(s) : n <= oseq[c]
        PROVE  \A n \in Numbers(s) : n <= oseq'[c] /\ n < oseq[c] + 1
    <3> SUFFICES ASSUME NEW n \in Numbers(s) PROVE n <= oseq'[c] /\ n < oseq[c] + 1
      OBVIOUS
    <3>1. n <= oseq[c] /\ n \in Nat
      BY <2>3, NumbersType
    <3> QED BY <2>2, <3>1
  <2>4. CASE queues'[c] = queues[c]
    BY <1>0, <2>1, <2>3, <2>4 DEF InOrderOf
  <2>5. CASE queues'[c] # queues[c]
    <3>1. PICK p \in Packet : queues'[c] = Append(queues[c], p)
                              /\ p.seq = oseq[c] + 1 /\ oseq'[c] = oseq[c] + 1
      BY <1>1, <2>5, EnqueueOrder DEF IInv
    <3>2. \A n \in Numbers(queues[c]) : n <= oseq'[c] /\ n < p.seq
      BY <1>0, <2>3, <3>1 DEF InOrderOf
    <3>3. Numbers(queues'[c]) = Numbers(queues[c]) \cup {p.seq} /\ Increasing(queues'[c])
      BY <1>0, <3>1, <3>2, AppendOrder DEF InOrderOf
    <3>4. \A n \in Numbers(queues'[c]) : n <= oseq'[c]
      <4>1. p.seq <= oseq'[c]
        BY <2>2, <3>1
      <4> QED BY <3>2, <3>3, <4>1
    <3>5. ASSUME NEW f \in Forwarders, cur[f] = c
          PROVE  /\ Increasing(pkts[f]) /\ \A n \in Numbers(pkts[f]) : n <= oseq'[c]
                 /\ Below(Numbers(pkts[f]), Numbers(queues'[c]))
      <4>1. \A n \in Numbers(pkts[f]) : n <= oseq'[c] /\ n < p.seq
        BY <1>0, <2>3, <3>1, <3>5 DEF InOrderOf
      <4> QED BY <1>0, <3>3, <3>5, <4>1 DEF InOrderOf, Below
    <3> QED BY <1>0, <2>1, <3>3, <3>4, <3>5 DEF InOrderOf
  <2> QED BY <2>4, <2>5
<1>2. ASSUME NEW f \in Forwarders, RemoveFromList(f) PROVE InOrderOf(c)'
  <2>1. /\ pkts' = pkts /\ queues' = queues /\ oseq' = oseq
        /\ \A g \in Forwarders \ {f} : cur'[g] = cur[g]
    BY <1>2 DEF RemoveFromList, IInv, TypeOK
  <2>2. pkts[f] = <<>>
    BY <1>2 DEF RemoveFromList, BatchSent
  <2>3. Numbers(pkts[f]) = {} /\ Increasing(pkts[f])
    BY <2>2, EmptyOrder
  <2> QED BY <1>0, <2>1, <2>3 DEF InOrderOf, Below
<1>3. ASSUME NEW f \in Forwarders, StartRound(f) PROVE InOrderOf(c)'
  <2>1. /\ queues' = queues /\ oseq' = oseq /\ cur' = cur /\ pkts'[f] = <<>>
        /\ \A g \in Forwarders \ {f} : pkts'[g] = pkts[g]
    BY <1>3 DEF StartRound, IInv, TypeOK
  <2>2. Numbers(pkts'[f]) = {} /\ Increasing(pkts'[f])
    BY <2>1, EmptyOrder
  <2> QED BY <1>0, <2>1, <2>2 DEF InOrderOf, Below
<1>4. ASSUME NEW f \in Forwarders, Pop(f) PROVE InOrderOf(c)'
  <2> DEFINE q == queues[cur[f]]
             p == Head(q)
  <2>1. /\ cur[f] \in Clients /\ q # <<>> /\ q \in Seq(Packet)
        /\ pkts[f] \in Seq(Packet) /\ p \in Packet
        /\ queues'[cur[f]] = Tail(q) /\ pkts'[f] = Append(pkts[f], p)
        /\ \A d \in Clients \ {cur[f]} : queues'[d] = queues[d]
        /\ \A g \in Forwarders \ {f} : pkts'[g] = pkts[g]
        /\ cur' = cur /\ oseq' = oseq
    BY <1>4, PopOrder
  <2>2. CASE cur[f] = c
    <3>1. /\ Numbers(q) = Numbers(Tail(q)) \cup {p.seq} /\ Increasing(Tail(q))
          /\ \A n \in Numbers(Tail(q)) : p.seq < n
      BY <1>0, <2>1, <2>2, TailOrder DEF InOrderOf
    <3>2. \A n \in Numbers(pkts[f]) : n < p.seq
      BY <1>0, <2>2, <3>1 DEF InOrderOf, Below
    <3>3. Increasing(pkts'[f]) /\ Numbers(pkts'[f]) = Numbers(pkts[f]) \cup {p.seq}
      BY <1>0, <2>1, <2>2, <3>2, AppendOrder DEF InOrderOf
    <3>4. \A n \in Numbers(q) : n <= oseq[c]
      BY <1>0, <2>2 DEF InOrderOf
    <3>5. Below(Numbers(pkts'[f]), Numbers(Tail(q)))
          /\ \A n \in Numbers(pkts'[f]) : n <= oseq[c]
      BY <1>0, <2>2, <3>1, <3>3, <3>4 DEF InOrderOf, Below
    <3>6. ASSUME NEW g \in Forwarders \ {f}, cur[g] = c
          PROVE  /\ Below(Numbers(pkts[g]), Numbers(Tail(q)))
                 /\ Numbers(pkts[g]) \cap Numbers(pkts'[f]) = {}
      <4>1. Below(Numbers(pkts[g]), Numbers(q)) /\ Numbers(pkts[g]) \cap Numbers(pkts[f]) = {}
        BY <1>0, <2>2, <3>6 DEF InOrderOf
      <4>2. p.seq \notin Numbers(pkts[g])
        <5>1. p.seq \in Nat /\ ~(p.seq < p.seq)
          BY <2>1, SchedulerAssumption DEF Packet
        <5> QED BY <3>1, <4>1, <5>1 DEF Below
      <4> QED BY <3>1, <3>3, <4>1, <4>2 DEF Below
    <3>7. queues'[c] = Tail(q)
      BY <2>1, <2>2
    <3> HIDE DEF q, p
    <3>8. \A n \in Numbers(Tail(q)) : n <= oseq[c]
      BY <3>1, <3>4
    <3>9. ASSUME NEW g \in Forwarders, cur[g] = c
          PROVE  /\ Increasing(pkts'[g]) /\ \A n \in Numbers(pkts'[g]) : n <= oseq[c]
                 /\ Below(Numbers(pkts'[g]), Numbers(Tail(q)))
      <4>1. CASE g = f
        BY <3>3, <3>5, <4>1
      <4>2. CASE g # f
        BY <1>0, <2>1, <3>6, <3>9, <4>2 DEF InOrderOf
      <4> QED BY <4>1, <4>2
    <3>10. ASSUME NEW g \in Forwarders, NEW h \in Forwarders, g # h, cur[g] = c, cur[h] = c
           PROVE  Numbers(pkts'[g]) \cap Numbers(pkts'[h]) = {}
      <4>1. CASE g = f
        BY <2>1, <3>6, <3>10, <4>1
      <4>2. CASE h = f
        BY <2>1, <3>6, <3>10, <4>2
      <4>3. CASE g # f /\ h # f
        BY <1>0, <2>1, <3>10, <4>3 DEF InOrderOf
      <4> QED BY <4>1, <4>2, <4>3
    <3> QED BY <2>1, <3>1, <3>7, <3>8, <3>9, <3>10 DEF InOrderOf
  <2>3. CASE cur[f] # c
    <3>1. queues'[c] = queues[c] /\ \A g \in Forwarders : cur[g] = c => pkts'[g] = pkts[g]
      BY <2>1, <2>3
    <3> QED BY <1>0, <2>1, <3>1 DEF InOrderOf
  <2> QED BY <2>2, <2>3
<1>5. ASSUME NEW f \in Forwarders, Send(f) PROVE InOrderOf(c)'
  <2>1. /\ pkts[f] # <<>> /\ pkts[f] \in Seq(Packet)
        /\ pkts'[f] = Tail(pkts[f]) /\ \A g \in Forwarders \ {f} : pkts'[g] = pkts[g]
        /\ queues' = queues /\ cur' = cur /\ oseq' = oseq
    BY <1>5, SendOrder
  <2>2. \A g \in Forwarders : /\ Numbers(pkts'[g]) \subseteq Numbers(pkts[g])
                              /\ Increasing(pkts[g]) => Increasing(pkts'[g])
    BY <2>1, TailOrder
  <2> QED BY <1>0, <2>1, <2>2 DEF InOrderOf, Below
<1>6. ASSUME NEW d \in Clients, ClearQueue(d) PROVE InOrderOf(c)'
  <2>1. pkts' = pkts /\ cur' = cur /\ oseq' = oseq
        /\ (queues'[c] = queues[c] \/ queues'[c] = <<>>)
    BY <1>6 DEF ClearQueue, fwdVars, IInv, TypeOK
  <2> QED BY <1>0, <2>1, EmptyOrder DEF InOrderOf, Below
<1>7. CASE Quiet
  BY <1>0, <1>7 DEF Quiet, InOrderOf
<1>8. CASE UNCHANGED vars
  BY <1>7, <1>8 DEF vars, fwdVars, Quiet
<1> QED BY <1>1, <1>2, <1>3, <1>4, <1>5, <1>6, <1>7, <1>8, QuietSteps

LEMMA SentBeforeStep ==
  ASSUME OneForwarder, IInv, BatchSent, InOrder, SentBefore, [Next]_vars
  PROVE  SentBefore'
<1> DEFINE Part(c) == /\ lastSent[c] <= oseq[c]
                      /\ \A n \in Numbers(queues[c]) : lastSent[c] < n
                      /\ \A f \in Forwarders : cur[f] = c =>
                           \A n \in Numbers(pkts[f]) : lastSent[c] < n
<1> SUFFICES ASSUME NEW c \in Clients PROVE Part(c)'
  BY DEF SentBefore
<1>0. /\ Part(c) /\ queues[c] \in Seq(Packet) /\ oseq[c] \in Nat /\ lastSent[c] \in Nat
      /\ \A f \in Forwarders : pkts[f] \in Seq(Packet)
  <2>1. Part(c)
    BY DEF SentBefore
  <2> HIDE DEF Part
  <2> QED BY <2>1, PacketTypes
<1>1. ASSUME NEW d \in Clients, NEW len \in Lens, Enqueue(d, len) PROVE Part(c)'
  <2>1. pkts' = pkts /\ cur' = cur /\ lastSent' = lastSent
    BY <1>1 DEF Enqueue, fwdVars
  <2>2. oseq'[c] \in Nat /\ oseq'[c] >= oseq[c]
    BY <1>1, EnqueueOrder DEF IInv
  <2>3. lastSent[c] <= oseq'[c] /\ lastSent[c] < oseq[c] + 1
    BY <1>0, <2>2
  <2>4. \A n \in Numbers(queues'[c]) : lastSent[c] < n
    <3>1. CASE queues'[c] = queues[c]
      BY <1>0, <3>1
    <3>2. CASE queues'[c] # queues[c]
      <4>1. PICK p \in Packet : queues'[c] = Append(queues[c], p) /\ p.seq = oseq[c] + 1
        BY <1>1, <3>2, EnqueueOrder DEF IInv
      <4>2. Numbers(queues'[c]) = Numbers(queues[c]) \cup {p.seq}
        BY <1>0, <4>1, AppendOrder
      <4> QED BY <1>0, <2>3, <4>1, <4>2
    <3> QED BY <3>1, <3>2
  <2> QED BY <1>0, <2>1, <2>3, <2>4
<1>2. ASSUME NEW f \in Forwarders, RemoveFromList(f) PROVE Part(c)'
  <2>1. /\ pkts' = pkts /\ queues' = queues /\ oseq' = oseq /\ lastSent' = lastSent
        /\ \A g \in Forwarders \ {f} : cur'[g] = cur[g]
    BY <1>2 DEF RemoveFromList, IInv, TypeOK
  <2>2. Numbers(pkts[f]) = {}
    BY <1>2, EmptyOrder DEF RemoveFromList, BatchSent
  <2> QED BY <1>0, <2>1, <2>2
<1>3. ASSUME NEW f \in Forwarders, StartRound(f) PROVE Part(c)'
  <2>1. /\ queues' = queues /\ oseq' = oseq /\ cur' = cur /\ lastSent' = lastSent
        /\ pkts'[f] = <<>> /\ \A g \in Forwarders \ {f} : pkts'[g] = pkts[g]
    BY <1>3 DEF StartRound, IInv, TypeOK
  <2>2. Numbers(pkts'[f]) = {}
    BY <2>1, EmptyOrder
  <2> QED BY <1>0, <2>1, <2>2
<1>4. ASSUME NEW f \in Forwarders, Pop(f) PROVE Part(c)'
  <2> DEFINE q == queues[cur[f]]
             p == Head(q)
  <2>1. /\ cur[f] \in Clients /\ q # <<>> /\ q \in Seq(Packet)
        /\ pkts[f] \in Seq(Packet) /\ p \in Packet
        /\ queues'[cur[f]] = Tail(q) /\ pkts'[f] = Append(pkts[f], p)
        /\ \A d \in Clients \ {cur[f]} : queues'[d] = queues[d]
        /\ \A g \in Forwarders \ {f} : pkts'[g] = pkts[g]
        /\ cur' = cur /\ oseq' = oseq /\ lastSent' = lastSent
    BY <1>4, PopOrder
  <2>2. Numbers(q) = Numbers(Tail(q)) \cup {p.seq}
    BY <2>1, TailOrder
  <2>3. Numbers(pkts'[f]) = Numbers(pkts[f]) \cup {p.seq}
    BY <2>1, AppendOrder
  <2>4. cur[f] = c => Numbers(q) = Numbers(queues[c])
    OBVIOUS
  <2>5. Numbers(queues'[c]) \subseteq Numbers(queues[c])
    BY <2>1, <2>2, <2>4
  <2>6. ASSUME NEW g \in Forwarders, cur[g] = c
        PROVE  \A n \in Numbers(pkts'[g]) : lastSent[c] < n
    <3>1. CASE g = f
      <4>1. Numbers(pkts'[g]) \subseteq Numbers(pkts[f]) \cup Numbers(queues[c])
        BY <2>2, <2>3, <2>4, <2>6, <3>1
      <4> QED BY <1>0, <2>6, <3>1, <4>1
    <3>2. CASE g # f
      BY <1>0, <2>1, <2>6, <3>2
    <3> QED BY <3>1, <3>2
  <2> QED BY <1>0, <2>1, <2>5, <2>6
<1>5. ASSUME NEW f \in Forwarders, Send(f) PROVE Part(c)'
  <2> DEFINE p == Head(pkts[f])
  <2>1. /\ pkts[f] # <<>> /\ pkts[f] \in Seq(Packet) /\ cur[f] \in Clients
        /\ pkts'[f] = Tail(pkts[f])
        /\ queues' = queues /\ cur' = cur /\ oseq' = oseq
        /\ lastSent' = [lastSent EXCEPT ![cur[f]] = p.seq]
    BY <1>5, SendOrder
  <2>2. \A g \in Forwarders : g = f
    BY DEF OneForwarder
  <2>3. CASE cur[f] = c
    <3>1. InOrderOf(c)
      BY DEF InOrder, InOrderOf
    <3>2. /\ Numbers(pkts[f]) = Numbers(Tail(pkts[f])) \cup {p.seq}
          /\ \A n \in Numbers(Tail(pkts[f])) : p.seq < n
      BY <2>1, <2>3, <3>1, TailOrder DEF InOrderOf
    <3>3. lastSent'[c] = p.seq
      BY <2>1, <2>3 DEF IInv, TypeOK
    <3>4. p.seq <= oseq[c] /\ \A n \in Numbers(queues[c]) : p.seq < n
      BY <2>3, <3>1, <3>2 DEF InOrderOf, Below
    <3> QED BY <2>1, <2>2, <3>2, <3>3, <3>4
  <2>4. CASE cur[f] # c
    <3>1. lastSent'[c] = lastSent[c]
      BY <2>1, <2>4 DEF IInv, TypeOK
    <3> QED BY <1>0, <2>1, <2>2, <2>4, <3>1
  <2> QED BY <2>3, <2>4
<1>6. ASSUME NEW d \in Clients, ClearQueue(d) PROVE Part(c)'
  <2>1. pkts' = pkts /\ cur' = cur /\ oseq' = oseq /\ lastSent' = lastSent
        /\ (queues'[c] = queues[c] \/ queues'[c] = <<>>)
    BY <1>6 DEF ClearQueue, fwdVars, IInv, TypeOK
  <2> QED BY <1>0, <2>1, EmptyOrder
<1>7. CASE Quiet
  BY <1>0, <1>7 DEF Quiet
<1>8. CASE UNCHANGED vars
  BY <1>7, <1>8 DEF vars, fwdVars, Quiet
<1> QED BY <1>1, <1>2, <1>3, <1>4, <1>5, <1>6, <1>7, <1>8, QuietSteps

-----------------------------------------------------------------------------
(* The theorems about the order *)

(* In every reachable state a client's packets are in order from the first *)
(* of a forwarder's batch to the last of the queue.                        *)
THEOREM OrderInvariance == Spec => [](IInv /\ BatchSent /\ InOrder)
<1>1. Init => BatchSent /\ InOrder
  <2> SUFFICES ASSUME Init PROVE BatchSent /\ InOrder
    OBVIOUS
  <2>1. \A f \in Forwarders : pkts[f] = <<>> /\ Numbers(pkts[f]) = {} /\ Increasing(pkts[f])
    BY EmptyOrder DEF Init
  <2>2. \A c \in Clients : Numbers(queues[c]) = {} /\ Increasing(queues[c])
    BY EmptyOrder DEF Init
  <2> QED BY <2>1, <2>2 DEF BatchSent, InOrder, Below
<1>2. IInv /\ BatchSent /\ InOrder /\ [Next]_vars => BatchSent' /\ InOrder'
  BY BatchSentStep, InOrderStep
<1> QED BY <1>1, <1>2, Invariance, PTL DEF Spec

(* However forwarders, arrivals and updates interleave, the batches of a   *)
(* client followed by its queue are in the order ReadTun numbered them,    *)
(* and no packet is in two forwarders' batches.                            *)
THEOREM HandedOnceHolds == Spec => []HandedOnce
<1>1. IInv /\ InOrder => HandedOnce
  <2> SUFFICES ASSUME IInv, InOrder, NEW c \in Clients
               PROVE  /\ Increasing(queues[c])
                      /\ \A f \in Forwarders : cur[f] = c => Increasing(pkts[f] \o queues[c])
                      /\ \A f, g \in Forwarders :
                           f # g /\ cur[f] = c /\ cur[g] = c =>
                             \A i \in 1..Len(pkts[f]), j \in 1..Len(pkts[g]) :
                               pkts[f][i].seq # pkts[g][j].seq
    BY DEF HandedOnce
  <2>1. queues[c] \in Seq(Packet) /\ \A f \in Forwarders : pkts[f] \in Seq(Packet)
    BY DEF IInv, TypeOK
  <2>2. ASSUME NEW f \in Forwarders, cur[f] = c PROVE Increasing(pkts[f] \o queues[c])
    BY <2>1, <2>2, ConcatOrder DEF InOrder
  <2>3. ASSUME NEW f \in Forwarders, NEW g \in Forwarders, f # g, cur[f] = c, cur[g] = c,
               NEW i \in 1..Len(pkts[f]), NEW j \in 1..Len(pkts[g])
        PROVE  pkts[f][i].seq # pkts[g][j].seq
    <3>1. Numbers(pkts[f]) \cap Numbers(pkts[g]) = {}
      BY <2>3 DEF InOrder
    <3>2. pkts[f][i].seq \in Numbers(pkts[f]) /\ pkts[g][j].seq \in Numbers(pkts[g])
      BY DEF Numbers
    <3> QED BY <3>1, <3>2
  <2> QED BY <2>2, <2>3 DEF InOrder
<1> QED BY <1>1, OrderInvariance, PTL

(* With one forwarder for the contention domain, a client's packets leave  *)
(* in the order ReadTun numbered them, whatever is dropped or cleared.     *)
THEOREM SentInOrderHolds ==
  ASSUME OneForwarder
  PROVE  Spec => SentInOrder
<1>1. Init => SentBefore
  <2> SUFFICES ASSUME Init PROVE SentBefore
    OBVIOUS
  <2>1. \A f \in Forwarders : Numbers(pkts[f]) = {}
    BY EmptyOrder DEF Init
  <2>2. \A c \in Clients : Numbers(queues[c]) = {} /\ lastSent[c] = 0 /\ oseq[c] = 0
    BY EmptyOrder DEF Init
  <2> QED BY <2>1, <2>2 DEF SentBefore
<1>2. IInv /\ BatchSent /\ InOrder /\ SentBefore /\ [Next]_vars => SentBefore'
  BY SentBeforeStep
<1>3. IInv /\ SentBefore /\ [Next]_vars =>
        [\A c \in Clients : lastSent'[c] # lastSent[c] => lastSent'[c] > lastSent[c]]_lastSent
  <2> SUFFICES ASSUME IInv, SentBefore, [Next]_vars, NEW c \in Clients,
                      lastSent'[c] # lastSent[c]
               PROVE  lastSent'[c] > lastSent[c]
    OBVIOUS
  <2>1. PICK f \in Forwarders : Send(f)
    BY QuietSteps DEF vars, Enqueue, RemoveFromList, StartRound, Pop, ClearQueue, Quiet
  <2>2. /\ pkts[f] # <<>> /\ pkts[f] \in Seq(Packet) /\ cur[f] \in Clients
        /\ lastSent' = [lastSent EXCEPT ![cur[f]] = Head(pkts[f]).seq]
    BY <2>1, SendOrder
  <2>3. cur[f] = c /\ lastSent'[c] = Head(pkts[f]).seq
    BY <2>2 DEF IInv, TypeOK
  <2>4. Head(pkts[f]).seq \in Numbers(pkts[f])
    BY <2>2, TailOrder
  <2>5. lastSent[c] < Head(pkts[f]).seq
    BY <2>3, <2>4 DEF SentBefore
  <2>6. lastSent[c] \in Nat /\ Head(pkts[f]).seq \in Nat
    BY <2>2, <2>4, NumbersType, SchedulerAssumption DEF IInv, TypeOK
  <2> QED BY <2>3, <2>5, <2>6
<1> QED BY <1>1, <1>2, <1>3, OrderInvariance, PTL DEF Spec, SentInOrder

=============================================================================
