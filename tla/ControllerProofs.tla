--------------------------- MODULE ControllerProofs ---------------------------
(***************************************************************************)
(* Proofs about Controller, for any clients, base stations and contention  *)
(* domains and any number of packets.                                      *)
(*                                                                         *)
(* The invariant follows a packet: in a domain it is in at most one place  *)
(* (InOnePlace), so Send takes it out of the domain (SendWaits), and how   *)
(* often it was sent is accounted for by the domains it is no more in      *)
(* (Accounted).  A packet that was dropped is in no place of the domain    *)
(* that dropped it (DroppedOK).                                            *)
(***************************************************************************)
EXTENDS Controller, FiniteSetTheorems, SequenceTheorems, TLAPS

-----------------------------------------------------------------------------
(* The inductive invariant *)

Packet == [client : Clients, seq : 1..MaxSeq]

TypeOK ==
  /\ mode \in {"MaxThroughput", "Duplication", "Optimizer"}
  /\ route \in PartialRoutes
  /\ oseq \in [Clients -> 0..MaxSeq]
  /\ reading \in SUBSET (Domains \X Clients)
  /\ queues \in [Domains -> [Clients -> Seq(1..MaxSeq)]]
  /\ served \in [Domains -> SUBSET Clients]
  /\ pkts \in [BSs -> Seq(Packet)]
  /\ todo \in SUBSET Domains
  /\ sent \in [Clients -> [1..MaxSeq -> [BSs -> Nat]]]
  /\ spread \in SUBSET (Clients \X (1..MaxSeq))
  /\ dropped \in SUBSET (Domains \X Clients \X (1..MaxSeq))
  /\ moved \in SUBSET Clients

(* ReadTun has one packet at a time, and nothing that waits is numbered    *)
(* higher than the last packet.                                            *)
NumbersOK ==
  /\ \A x, y \in reading : x[2] = y[2]
  /\ \A x \in reading : oseq[x[2]] > 0
  /\ \A d \in Domains, c \in Clients, n \in 1..MaxSeq :
       Waits(d, c, n) => n <= oseq[c]

(* A packet is in at most one place of a domain, once.                     *)
InOnePlace ==
  /\ \A d \in Domains, c \in Clients : IsInjective(queues[d][c])
  /\ \A f \in BSs : IsInjective(pkts[f])
  /\ \A d \in Domains, c \in Clients, n \in 1..MaxSeq :
       ~(InReading(d, c, n) /\ InQueue(d, c, n))
  /\ \A f \in BSs, c \in Clients, n \in 1..MaxSeq : InHand(f, c, n) =>
       /\ ~InReading(ConflictGraph[f], c, n)
       /\ ~InQueue(ConflictGraph[f], c, n)
       /\ \A g \in BSs \ {f} : ConflictGraph[g] = ConflictGraph[f] => ~InHand(g, c, n)

(* Once there are routes, only the optimizer leaves a client without one.  *)
RoutesOK ==
  /\ mode # "Optimizer" => DOMAIN route \in {{}, Clients}
  /\ todo \subseteq {DomainOf(c) : c \in DOMAIN route}

(* What has become of packet n of client c.  One that was put everywhere   *)
(* was sent at most once for each domain it has left; another one waits in *)
(* one domain, or has been sent once.                                      *)
Unsent(c, n) == \A b \in BSs : sent[c][n][b] = 0

WaitsNowhere(c, n) == \A d \in Domains : ~Waits(d, c, n)

Left(c, n) == {d \in Domains : ~Waits(d, c, n)}

SpreadOK(c, n) == \A b \in BSs : sent[c][n][b] <= Cardinality(Left(c, n))

SingleOK(c, n) ==
  /\ \A d, e \in Domains : Waits(d, c, n) /\ Waits(e, c, n) => d = e
  /\ WaitsNowhere(c, n) \/ Unsent(c, n)
  /\ \A b \in BSs : sent[c][n][b] <= 1
  /\ mode # "Optimizer" => HasRoute(c)
  /\ mode = "MaxThroughput" =>
       \A b, b2 \in BSs : sent[c][n][b] > 0 /\ sent[c][n][b2] > 0 => b = b2

Accounted ==
  \A c \in Clients : \A n \in 1..MaxSeq :
    /\ n > oseq[c] => Unsent(c, n) /\ <<c, n>> \notin spread
    /\ n <= oseq[c] => IF <<c, n>> \in spread THEN SpreadOK(c, n) ELSE SingleOK(c, n)

(* A dropped packet is in no place of the domain that dropped it, and had  *)
(* a full queue of earlier ones before it.                                 *)
DroppedOK ==
  \A d \in Domains, c \in Clients, n \in 1..MaxSeq : <<d, c, n>> \in dropped =>
    /\ n <= oseq[c] /\ ~Waits(d, c, n)
    /\ Overflowed(d, c, n)

(* A client that has left no domain has all its packets, but those dropped *)
(* there, in the one it is in, or in every one while there have been no    *)
(* routes.                                                                 *)
SomeSent(c, n) == \E b \in BSs : sent[c][n][b] > 0

Kept ==
  \A c \in Clients \ moved :
    /\ ~HasRoute(c) => todo = {}
    /\ \A n \in 1..oseq[c] :
         SomeSent(c, n) \/ \A d \in EnqueueIn(c) : Waits(d, c, n) \/ <<d, c, n>> \in dropped

(* A scheduler with clients serves them once it is told, and all serve     *)
(* everyone before there are routes.                                       *)
ServedOK ==
  /\ \A d \in Domains \ todo : ServedBy(d) # {} => served[d] = ServedBy(d)
  /\ mode # "Optimizer" /\ DOMAIN route = {} => \A d \in Domains : served[d] = Clients

(* The domains no news are on the way to.  No packet is on its way to a    *)
(* client elsewhere but the one that finds nothing else there.             *)
Settled == {d \in Domains \ todo : mode = "Optimizer" => ServedBy(d) # {}}

StaleOK ==
  \A d \in Settled :
    /\ \A c, c2 \in Elsewhere(d) :
         \A i \in DOMAIN queues[d][c], j \in DOMAIN queues[d][c2] : c = c2 /\ i = j
    /\ \A c \in Elsewhere(d) : <<d, c>> \in reading =>
         \A c2 \in Elsewhere(d) : queues[d][c2] = <<>>

IInv ==
  /\ TypeOK /\ NumbersOK /\ InOnePlace /\ RoutesOK
  /\ Accounted /\ DroppedOK /\ Kept /\ ServedOK /\ StaleOK

-----------------------------------------------------------------------------
(* Types *)

LEMMA DomainOfType ==
  ASSUME TypeOK, NEW c \in DOMAIN route
  PROVE  /\ c \in Clients /\ route[c] \in BSs /\ DomainOf(c) \in Domains
         /\ route \in [DOMAIN route -> BSs]
<1>1. PICK S \in SUBSET Clients : route \in [S -> BSs]
  BY DEF TypeOK, PartialRoutes
<1>2. route[c] \in BSs /\ c \in Clients /\ route \in [DOMAIN route -> BSs]
  BY <1>1
<1> QED BY <1>2, ControllerAssumption DEF DomainOf

LEMMA EnqueueInType ==
  ASSUME TypeOK, NEW c \in Clients
  PROVE  EnqueueIn(c) \subseteq Domains
  BY DomainOfType DEF EnqueueIn, HasRoute

(* The first n of a queue, as a batch, and the rest of it. *)
LEMMA BatchType ==
  ASSUME NEW S, NEW c \in Clients, NEW q \in Seq(S), NEW n \in 1..Len(q)
  PROVE  /\ [i \in 1..n |-> [client |-> c, seq |-> q[i]]] \in Seq([client : Clients, seq : S])
         /\ SubSeq(q, n + 1, Len(q)) \in Seq(S)
         /\ DOMAIN SubSeq(q, n + 1, Len(q)) = 1..Len(q) - n
         /\ \A i \in 1..Len(q) - n : SubSeq(q, n + 1, Len(q))[i] = q[n + i]
         /\ DOMAIN q = 1..Len(q) /\ Len(q) \in Nat
<1>1. /\ n \in Nat /\ n <= Len(q) /\ Len(q) \in Nat /\ q \in [1..Len(q) -> S]
      /\ DOMAIN q = 1..Len(q)
  BY LenProperties
<1>2. \A i \in 1..n : q[i] \in S
  BY <1>1
<1>3. [i \in 1..n |-> [client |-> c, seq |-> q[i]]] \in [1..n -> [client : Clients, seq : S]]
  BY <1>2
<1>4. [i \in 1..n |-> [client |-> c, seq |-> q[i]]] \in Seq([client : Clients, seq : S])
  BY <1>1, <1>3, SeqDef
<1>5. \A i \in n + 1 .. Len(q) : q[i] \in S
  BY <1>1
<1>6. /\ SubSeq(q, n + 1, Len(q)) \in Seq(S)
      /\ Len(SubSeq(q, n + 1, Len(q))) = IF n + 1 <= Len(q) THEN Len(q) - (n + 1) + 1 ELSE 0
      /\ \A i \in 1..Len(q) - (n + 1) + 1 : SubSeq(q, n + 1, Len(q))[i] = q[(n + 1) + i - 1]
  <2>1. n + 1 \in Int /\ Len(q) \in Int
    BY <1>1
  <2> QED BY <1>5, <2>1, SubSeqProperties
<1>7. Len(SubSeq(q, n + 1, Len(q))) = Len(q) - n
  <2>1. n + 1 <= Len(q) => Len(q) - (n + 1) + 1 = Len(q) - n
    BY <1>1
  <2>2. ~(n + 1 <= Len(q)) => 0 = Len(q) - n
    <3>1. n \in Nat /\ Len(q) \in Nat /\ n <= Len(q)
      BY <1>1
    <3> QED BY <3>1
  <2> QED BY <1>6, <2>1, <2>2
<1>9. \A i \in 1..Len(q) - n : SubSeq(q, n + 1, Len(q))[i] = q[n + i]
  <2>1. Len(q) - (n + 1) + 1 = Len(q) - n
    BY <1>1
  <2> SUFFICES ASSUME NEW i \in 1..Len(q) - n PROVE SubSeq(q, n + 1, Len(q))[i] = q[n + i]
    OBVIOUS
  <2>2. SubSeq(q, n + 1, Len(q))[i] = q[(n + 1) + i - 1]
    BY <1>6, <2>1
  <2>3. (n + 1) + i - 1 = n + i
    BY <1>1
  <2> QED BY <2>2, <2>3
<1>8. DOMAIN SubSeq(q, n + 1, Len(q)) = 1..Len(q) - n
  BY <1>6, <1>7, LenProperties
<1> QED BY <1>1, <1>4, <1>6, <1>8, <1>9

LEMMA TypeInit == Init => TypeOK
<1> SUFFICES ASSUME Init PROVE TypeOK
  OBVIOUS
<1>1. route \in PartialRoutes
  <2>1. route \in [{} -> BSs]
    BY DEF Init
  <2> QED BY <2>1 DEF PartialRoutes
<1> QED BY <1>1, ControllerAssumption DEF Init, TypeOK

LEMMA HeadInBatch ==
  ASSUME TypeOK, NEW f \in BSs, pkts[f] # <<>>
  PROVE  Head(pkts[f]) \in Packet /\ Tail(pkts[f]) \in Seq(Packet)
  BY HeadTailProperties DEF TypeOK

LEMMA TypeStep == TypeOK /\ NumbersOK /\ [Next]_vars => TypeOK'
<1> SUFFICES ASSUME TypeOK, NumbersOK, [Next]_vars PROVE TypeOK'
  OBVIOUS
<1>1. ASSUME NEW c \in Clients, ReadTun(c) PROVE TypeOK'
  <2>1. oseq[c] + 1 \in 1..MaxSeq /\ oseq[c] + 1 \in 0..MaxSeq
    BY <1>1, ControllerAssumption DEF ReadTun, TypeOK
  <2>2. oseq' \in [Clients -> 0..MaxSeq] /\ oseq'[c] \in 1..MaxSeq
    BY <1>1, <2>1 DEF ReadTun, TypeOK
  <2>3. reading' \subseteq Domains \X Clients
    BY <1>1, EnqueueInType DEF ReadTun
  <2>4. spread' \subseteq Clients \X (1..MaxSeq)
    BY <1>1, <2>2 DEF ReadTun, TypeOK
  <2> QED BY <1>1, <2>2, <2>3, <2>4 DEF ReadTun, TypeOK, PartialRoutes
<1>2. ASSUME NEW d \in Domains, NEW c \in Clients, Enqueue(d, c) PROVE TypeOK'
  <2>1. oseq[c] \in 1..MaxSeq
    <3>1. oseq[c] > 0 /\ oseq[c] \in 0..MaxSeq
      BY <1>2 DEF Enqueue, NumbersOK, TypeOK
    <3> QED BY <3>1, ControllerAssumption
  <2>2. Append(queues[d][c], oseq[c]) \in Seq(1..MaxSeq)
    BY <2>1, AppendProperties DEF TypeOK
  <2>3. queues' \in [Domains -> [Clients -> Seq(1..MaxSeq)]]
    <3>1. \/ queues' = queues
          \/ queues' = [queues EXCEPT ![d][c] = Append(queues[d][c], oseq[c])]
      BY <1>2 DEF Enqueue
    <3>2. CASE queues' = queues
      BY <3>2 DEF TypeOK
    <3>3. CASE queues' = [queues EXCEPT ![d][c] = Append(queues[d][c], oseq[c])]
      BY <2>2, <3>3 DEF TypeOK
    <3> QED BY <3>1, <3>2, <3>3
  <2>4. dropped' \subseteq Domains \X Clients \X (1..MaxSeq)
    BY <1>2, <2>1 DEF Enqueue, TypeOK
  <2> QED BY <1>2, <2>3, <2>4 DEF Enqueue, TypeOK, PartialRoutes
<1>3. ASSUME NEW f \in BSs, NEW c \in Clients, Dequeue(f, c) PROVE TypeOK'
  <2> DEFINE d == ConflictGraph[f]
             q == queues[d][c]
  <2>1. d \in Domains
    BY ControllerAssumption
  <2>2. q \in Seq(1..MaxSeq)
    BY <2>1 DEF TypeOK
  <2>3. PICK n \in 1..Len(q) :
          /\ pkts' = [pkts EXCEPT ![f] = [i \in 1..n |-> [client |-> c, seq |-> q[i]]]]
          /\ queues' = [queues EXCEPT ![d][c] = SubSeq(q, n + 1, Len(q))]
    BY <1>3 DEF Dequeue
  <2>4. /\ [i \in 1..n |-> [client |-> c, seq |-> q[i]]] \in Seq(Packet)
        /\ SubSeq(q, n + 1, Len(q)) \in Seq(1..MaxSeq)
    BY <2>2, BatchType DEF Packet
  <2>5. pkts' \in [BSs -> Seq(Packet)]
    BY <2>3, <2>4 DEF TypeOK
  <2>6. queues' \in [Domains -> [Clients -> Seq(1..MaxSeq)]]
    BY <2>1, <2>3, <2>4 DEF TypeOK
  <2> QED BY <1>3, <2>5, <2>6 DEF Dequeue, TypeOK, PartialRoutes
<1>4. ASSUME NEW f \in BSs, Send(f) PROVE TypeOK'
  <2> DEFINE p == Head(pkts[f])
  <2>1. p.client \in Clients /\ p.seq \in 1..MaxSeq /\ Tail(pkts[f]) \in Seq(Packet)
    BY <1>4, HeadInBatch DEF Send, Packet
  <2>2. pkts' \in [BSs -> Seq(Packet)]
    BY <1>4, <2>1 DEF Send, TypeOK
  <2>3. sent[p.client][p.seq] \in [BSs -> Nat]
    BY <2>1 DEF TypeOK
  <2>4. [b \in BSs |-> sent[p.client][p.seq][b]
                         + IF b \in SendTo(p.client) THEN 1 ELSE 0] \in [BSs -> Nat]
    BY <2>3
  <2>5. sent' \in [Clients -> [1..MaxSeq -> [BSs -> Nat]]]
    BY <1>4, <2>1, <2>4 DEF Send, TypeOK
  <2> QED BY <1>4, <2>2, <2>5 DEF Send, TypeOK, PartialRoutes
<1>5. ASSUME UpdateRoutes PROVE TypeOK'
  <2>1. PICK r \in NewRoutes :
          /\ route' = r
          /\ todo' = {ConflictGraph[r[c]] : c \in DOMAIN r}
          /\ moved' = moved \cup Leaving(r)
    BY <1>5 DEF UpdateRoutes
  <2>2. r \in PartialRoutes
    BY DEF NewRoutes, PartialRoutes
  <2>3. todo' \subseteq Domains
    BY <2>1, <2>2, ControllerAssumption DEF PartialRoutes
  <2>4. moved' \subseteq Clients
    BY <2>1 DEF Leaving, TypeOK
  <2> QED BY <1>5, <2>1, <2>2, <2>3, <2>4 DEF UpdateRoutes, TypeOK, PartialRoutes
<1>6. ASSUME NEW d \in Domains, ComputeQuantum(d) PROVE TypeOK'
  <2>1. ServedBy(d) \subseteq Clients
    BY DomainOfType DEF ServedBy
  <2>2. ClearOthers(queues[d], d) \in [Clients -> Seq(1..MaxSeq)]
    <3>1. queues[d] \in [Clients -> Seq(1..MaxSeq)] /\ <<>> \in Seq(1..MaxSeq)
      BY EmptySeq DEF TypeOK
    <3> QED BY <3>1, Zenon DEF ClearOthers
  <2>3. served' \in [Domains -> SUBSET Clients]
    BY <1>6, <2>1 DEF ComputeQuantum, TypeOK
  <2>4. queues' \in [Domains -> [Clients -> Seq(1..MaxSeq)]]
    BY <1>6, <2>2 DEF ComputeQuantum, TypeOK
  <2> QED BY <1>6, <2>3, <2>4 DEF ComputeQuantum, TypeOK, PartialRoutes
<1>7. CASE UNCHANGED vars
  BY <1>7 DEF vars, TypeOK, PartialRoutes
<1> QED BY <1>1, <1>2, <1>3, <1>4, <1>5, <1>6, <1>7 DEF Next

-----------------------------------------------------------------------------
(* Where packets wait after each step *)

LEMMA SamePacket ==
  \A c, n, e, k : [client |-> c, seq |-> n] = [client |-> e, seq |-> k] <=> c = e /\ n = k
<1> SUFFICES ASSUME NEW c, NEW n, NEW e, NEW k,
                    [client |-> c, seq |-> n] = [client |-> e, seq |-> k]
             PROVE  c = e /\ n = k
  OBVIOUS
<1>1. [client |-> c, seq |-> n].client = [client |-> e, seq |-> k].client
  OBVIOUS
<1>2. [client |-> c, seq |-> n].seq = [client |-> e, seq |-> k].seq
  OBVIOUS
<1> QED BY <1>1, <1>2

(* ReadTun numbers a packet that is in no place yet. *)
LEMMA ReadTunWaits ==
  ASSUME TypeOK, NumbersOK, NEW c \in Clients, ReadTun(c),
         NEW d \in Domains, NEW e \in Clients, NEW n \in 1..MaxSeq
  PROVE  /\ InQueue(d, e, n)' <=> InQueue(d, e, n)
         /\ \A f \in BSs : InHand(f, e, n)' <=> InHand(f, e, n)
         /\ InReading(d, e, n)' <=> e = c /\ n = oseq[c] + 1 /\ d \in EnqueueIn(c)
         /\ Waits(d, e, n)' <=> IF e = c /\ n = oseq[c] + 1 THEN d \in EnqueueIn(c)
                                                            ELSE Waits(d, e, n)
<1>1. queues' = queues /\ pkts' = pkts /\ reading = {} /\ oseq'[c] = oseq[c] + 1
      /\ reading' = EnqueueIn(c) \X {c} /\ oseq[c] \in Nat
  BY DEF ReadTun, TypeOK
<1>2. /\ InQueue(d, e, n)' <=> InQueue(d, e, n)
      /\ \A f \in BSs : InHand(f, e, n)' <=> InHand(f, e, n)
  BY <1>1 DEF InQueue, InHand
<1>3. InReading(d, e, n)' <=> e = c /\ n = oseq[c] + 1 /\ d \in EnqueueIn(c)
  BY <1>1 DEF InReading
<1>4. ~InReading(d, e, n)
  BY <1>1 DEF InReading
<1>5. e = c /\ n = oseq[c] + 1 => ~Waits(d, e, n)
  <2>1. ~(oseq[c] + 1 <= oseq[c])
    BY <1>1
  <2> QED BY <2>1 DEF NumbersOK
<1> QED BY <1>2, <1>3, <1>4, <1>5 DEF Waits

(* Enqueue moves the packet into the queue, or drops it. *)
LEMMA EnqueueWaits ==
  ASSUME TypeOK, NumbersOK, InOnePlace,
         NEW d \in Domains, NEW c \in Clients, Enqueue(d, c),
         NEW x \in Domains, NEW e \in Clients, NEW n \in 1..MaxSeq
  PROVE  LET isP == x = d /\ e = c /\ n = oseq[c]
             full == IsFull(queues[d][c])
         IN  /\ InQueue(x, e, n)' <=> InQueue(x, e, n) \/ (isP /\ ~full)
             /\ \A f \in BSs : InHand(f, e, n)' <=> InHand(f, e, n)
             /\ InReading(x, e, n)' <=> InReading(x, e, n) /\ ~(x = d /\ e = c)
             /\ Waits(x, e, n)' <=> Waits(x, e, n) /\ ~(isP /\ full)
<1> DEFINE isP == x = d /\ e = c /\ n = oseq[c]
           full == IsFull(queues[d][c])
<1>1. /\ pkts' = pkts /\ reading' = reading \ {<<d, c>>} /\ oseq' = oseq
      /\ <<d, c>> \in reading
      /\ full => queues' = queues
      /\ ~full => queues' = [queues EXCEPT ![d][c] = Append(queues[d][c], oseq[c])]
  BY DEF Enqueue
<1>2. oseq[c] \in 1..MaxSeq
  <2>1. oseq[c] > 0 /\ oseq[c] \in 0..MaxSeq
    BY <1>1 DEF NumbersOK, TypeOK
  <2> QED BY <2>1, ControllerAssumption
<1> HIDE DEF full
<1>3. InQueue(x, e, n)' <=> InQueue(x, e, n) \/ (isP /\ ~full)
  <2>1. CASE x = d /\ e = c /\ ~full
    <3> DEFINE q == queues[d][c]
    <3>1. queues'[x][e] = Append(q, oseq[c]) /\ q \in Seq(1..MaxSeq)
      BY <1>1, <2>1 DEF TypeOK
    <3>2. /\ DOMAIN q = 1..Len(q) /\ Len(q) \in Nat
          /\ DOMAIN Append(q, oseq[c]) = 1..Len(q) + 1
          /\ \A i \in 1..Len(q) : Append(q, oseq[c])[i] = q[i]
          /\ Append(q, oseq[c])[Len(q) + 1] = oseq[c]
      BY <1>2, <3>1, AppendProperties, LenProperties
    <3> HIDE DEF q
    <3>3. (\E i \in 1..Len(q) + 1 : Append(q, oseq[c])[i] = n)
            <=> (\E i \in 1..Len(q) : q[i] = n) \/ n = oseq[c]
      BY <3>2
    <3> QED BY <2>1, <3>1, <3>2, <3>3 DEF InQueue, q
  <2>2. CASE ~(x = d /\ e = c /\ ~full)
    <3>1. queues'[x][e] = queues[x][e]
      BY <1>1, <2>2 DEF TypeOK
    <3> QED BY <2>2, <3>1 DEF InQueue
  <2> QED BY <2>1, <2>2
<1>4. \A f \in BSs : InHand(f, e, n)' <=> InHand(f, e, n)
  BY <1>1 DEF InHand
<1>5. InReading(x, e, n)' <=> InReading(x, e, n) /\ ~(x = d /\ e = c)
  BY <1>1 DEF InReading
<1>6. isP => InReading(x, e, n)
  BY <1>1 DEF InReading
<1>7. InReading(x, e, n) /\ x = d /\ e = c => isP
  BY DEF InReading
<1>8. isP => /\ ~InQueue(x, e, n)
             /\ \A f \in BSs : ConflictGraph[f] = x => ~InHand(f, e, n)
  BY <1>6 DEF InOnePlace
<1> HIDE DEF isP
<1>9. Waits(x, e, n)' <=> Waits(x, e, n) /\ ~(isP /\ full)
  <2>1. CASE isP /\ full
    BY <1>3, <1>4, <1>5, <1>8, <2>1, Zenon DEF Waits, isP
  <2>2. CASE isP /\ ~full
    BY <1>3, <1>6, <2>2 DEF Waits
  <2>3. CASE ~isP
    <3>1. InReading(x, e, n)' <=> InReading(x, e, n)
      BY <1>5, <1>7, <2>3
    <3> QED BY <1>3, <1>4, <2>3, <3>1 DEF Waits
  <2> QED BY <2>1, <2>2, <2>3
<1> QED BY <1>3, <1>4, <1>5, <1>9 DEF isP, full

(* Dequeue moves packets from the front of the queue into a free hand. *)
LEMMA DequeueWaits ==
  ASSUME TypeOK, InOnePlace, NEW f \in BSs, NEW c \in Clients, Dequeue(f, c),
         NEW x \in Domains, NEW e \in Clients, NEW n \in 1..MaxSeq
  PROVE  /\ InQueue(x, e, n) <=>
              InQueue(x, e, n)' \/ (x = ConflictGraph[f] /\ InHand(f, e, n)')
         /\ ~(InQueue(x, e, n)' /\ x = ConflictGraph[f] /\ InHand(f, e, n)')
         /\ ~InHand(f, e, n)
         /\ \A g \in BSs \ {f} : InHand(g, e, n)' <=> InHand(g, e, n)
         /\ InReading(x, e, n)' <=> InReading(x, e, n)
         /\ Waits(x, e, n)' <=> Waits(x, e, n)
<1> DEFINE d == ConflictGraph[f]
           q == queues[d][c]
<1>0. d \in Domains /\ q \in Seq(1..MaxSeq)
  BY ControllerAssumption DEF TypeOK
<1>1. /\ oseq' = oseq /\ reading' = reading /\ pkts[f] = <<>>
      /\ \E m \in 1..Len(q) :
           /\ pkts' = [pkts EXCEPT ![f] = [i \in 1..m |-> [client |-> c, seq |-> q[i]]]]
           /\ queues' = [queues EXCEPT ![d][c] = SubSeq(q, m + 1, Len(q))]
  BY DEF Dequeue
<1>2. PICK m \in 1..Len(q) :
           /\ pkts' = [pkts EXCEPT ![f] = [i \in 1..m |-> [client |-> c, seq |-> q[i]]]]
           /\ queues' = [queues EXCEPT ![d][c] = SubSeq(q, m + 1, Len(q))]
  BY <1>1
<1>3. /\ pkts'[f] = [i \in 1..m |-> [client |-> c, seq |-> q[i]]]
      /\ \A g \in BSs \ {f} : pkts'[g] = pkts[g]
      /\ queues'[d][c] = SubSeq(q, m + 1, Len(q))
      /\ ~(x = d /\ e = c) => queues'[x][e] = queues[x][e]
  BY <1>0, <1>2 DEF TypeOK
<1>4. /\ DOMAIN SubSeq(q, m + 1, Len(q)) = 1..Len(q) - m
      /\ \A i \in 1..Len(q) - m : SubSeq(q, m + 1, Len(q))[i] = q[m + i]
      /\ DOMAIN q = 1..Len(q) /\ Len(q) \in Nat
  BY <1>0, BatchType
<1>5. \A i, j \in 1..Len(q) : q[i] = q[j] => i = j
  BY <1>0, <1>4 DEF InOnePlace, IsInjective
<1>6. InHand(f, e, n)' <=> e = c /\ \E i \in 1..m : q[i] = n
  <2>1. DOMAIN pkts'[f] = 1..m /\ \A i \in 1..m : pkts'[f][i] = [client |-> c, seq |-> q[i]]
    BY <1>3
  <2> HIDE DEF q
  <2>2. \A i \in 1..m : pkts'[f][i] = [client |-> e, seq |-> n] <=> c = e /\ q[i] = n
    <3> SUFFICES ASSUME NEW i \in 1..m
                 PROVE  pkts'[f][i] = [client |-> e, seq |-> n] <=> c = e /\ q[i] = n
      OBVIOUS
    <3>1. pkts'[f][i] = [client |-> c, seq |-> q[i]]
      BY <2>1
    <3>2. [client |-> c, seq |-> q[i]] = [client |-> e, seq |-> n] <=> c = e /\ q[i] = n
      BY SamePacket
    <3> QED BY <3>1, <3>2
  <2>3. InHand(f, e, n)' <=> \E i \in 1..m : c = e /\ q[i] = n
    BY <2>1, <2>2 DEF InHand
  <2> QED BY <2>3
<1>7. ~InHand(f, e, n)
  BY <1>1 DEF InHand
<1>8. \A g \in BSs \ {f} : InHand(g, e, n)' <=> InHand(g, e, n)
  BY <1>3 DEF InHand
<1>9. InReading(x, e, n)' <=> InReading(x, e, n)
  BY <1>1 DEF InReading
<1>10. CASE x = d /\ e = c
  <2>1. InQueue(x, e, n) <=> \E i \in 1..Len(q) : q[i] = n
    BY <1>4, <1>10 DEF InQueue
  <2>2. InQueue(x, e, n)' <=> \E i \in 1..Len(q) - m : q[m + i] = n
    <3>1. DOMAIN queues'[x][e] = 1..Len(q) - m
          /\ \A i \in 1..Len(q) - m : queues'[x][e][i] = q[m + i]
      BY <1>3, <1>4, <1>10
    <3> HIDE DEF q
    <3> QED BY <3>1 DEF InQueue
  <2> HIDE DEF d, q
  <2>3. (\E i \in 1..Len(q) : q[i] = n)
          <=> (\E i \in 1..m : q[i] = n) \/ (\E i \in 1..Len(q) - m : q[m + i] = n)
    <3>1. m \in Nat /\ Len(q) \in Nat /\ m <= Len(q)
      BY <1>4
    <3>2. \A i \in 1..Len(q) : i \in 1..m \/ (i - m \in 1..Len(q) - m /\ m + (i - m) = i)
      BY <3>1
    <3>3. \A i \in 1..m : i \in 1..Len(q)
      BY <3>1
    <3>4. \A i \in 1..Len(q) - m : m + i \in 1..Len(q)
      BY <3>1
    <3> QED BY <3>2, <3>3, <3>4, Zenon
  <2>4. ~((\E i \in 1..m : q[i] = n) /\ (\E i \in 1..Len(q) - m : q[m + i] = n))
    <3>1. m \in Nat /\ Len(q) \in Nat /\ m <= Len(q)
      BY <1>4
    <3>2. \A i \in 1..m, j \in 1..Len(q) - m :
            i \in 1..Len(q) /\ m + j \in 1..Len(q) /\ i # m + j
      BY <3>1
    <3> QED BY <1>5, <3>2
  <2> QED BY <1>6, <1>7, <1>8, <1>9, <1>10, <2>1, <2>2, <2>3, <2>4 DEF Waits, d
<1>11. CASE ~(x = d /\ e = c)
  <2>1. InQueue(x, e, n)' <=> InQueue(x, e, n)
    BY <1>3, <1>11 DEF InQueue
  <2>2. ~(x = d /\ InHand(f, e, n)')
    BY <1>6, <1>11
  <2> QED BY <1>7, <1>8, <1>9, <2>1, <2>2 DEF Waits
<1> QED BY <1>10, <1>11

(* Send takes the first packet out of the hand, and so out of the domain. *)
LEMMA SendWaits ==
  ASSUME TypeOK, InOnePlace, NEW f \in BSs, Send(f),
         NEW x \in Domains, NEW e \in Clients, NEW n \in 1..MaxSeq
  PROVE  LET p == Head(pkts[f])
             isP == e = p.client /\ n = p.seq
         IN  /\ InQueue(x, e, n)' <=> InQueue(x, e, n)
             /\ InReading(x, e, n)' <=> InReading(x, e, n)
             /\ InHand(f, e, n)' <=> InHand(f, e, n) /\ ~isP
             /\ \A g \in BSs \ {f} : InHand(g, e, n)' <=> InHand(g, e, n)
             /\ isP => Waits(ConflictGraph[f], e, n)
             /\ Waits(x, e, n)' <=> Waits(x, e, n) /\ ~(x = ConflictGraph[f] /\ isP)
<1> DEFINE s == pkts[f]
           p == Head(s)
           isP == e = p.client /\ n = p.seq
<1>1. /\ queues' = queues /\ reading' = reading /\ oseq' = oseq /\ s # <<>>
      /\ pkts'[f] = Tail(s) /\ \A g \in BSs \ {f} : pkts'[g] = pkts[g]
      /\ s \in Seq(Packet)
  BY DEF Send, TypeOK
<1>2. /\ InQueue(x, e, n)' <=> InQueue(x, e, n)
      /\ InReading(x, e, n)' <=> InReading(x, e, n)
      /\ \A g \in BSs \ {f} : InHand(g, e, n)' <=> InHand(g, e, n)
  BY <1>1 DEF InQueue, InReading, InHand
<1>3. /\ DOMAIN s = 1..Len(s) /\ Len(s) \in Nat \ {0} /\ p = s[1] /\ p \in Packet
      /\ DOMAIN Tail(s) = 1..Len(s) - 1
      /\ \A i \in 1..Len(s) - 1 : Tail(s)[i] = s[i + 1]
  <2>1. /\ Tail(s) \in Seq(Packet) /\ Len(Tail(s)) = Len(s) - 1 /\ p \in Packet
        /\ \A i \in 1..Len(Tail(s)) : Tail(s)[i] = s[i + 1]
    BY <1>1, HeadTailProperties
  <2>2. DOMAIN s = 1..Len(s) /\ Len(s) \in Nat \ {0} /\ p = s[1]
    BY <1>1, LenProperties, EmptySeq
  <2> QED BY <2>1, <2>2, LenProperties
<1>4. \A i, j \in 1..Len(s) : s[i] = s[j] => i = j
  BY <1>3 DEF InOnePlace, IsInjective
<1>5. isP <=> p = [client |-> e, seq |-> n]
  BY <1>3 DEF Packet
<1>6. InHand(f, e, n) <=> \E i \in 1..Len(s) : s[i] = [client |-> e, seq |-> n]
  BY <1>3 DEF InHand
<1>7. InHand(f, e, n)' <=> \E i \in 1..Len(s) - 1 : s[i + 1] = [client |-> e, seq |-> n]
  <2>1. InHand(f, e, n)' <=> \E i \in 1..Len(s) - 1 : Tail(s)[i] = [client |-> e, seq |-> n]
    BY <1>1, <1>3 DEF InHand
  <2> QED BY <1>3, <2>1
<1>8. InHand(f, e, n)' <=> InHand(f, e, n) /\ ~isP
  <2> DEFINE r == [client |-> e, seq |-> n]
  <2>1. \A i \in 1..Len(s) : i = 1 \/ (i - 1 \in 1..Len(s) - 1 /\ (i - 1) + 1 = i)
    BY <1>3
  <2>2. \A i \in 1..Len(s) - 1 : i + 1 \in 1..Len(s) /\ i + 1 # 1
    BY <1>3
  <2>3. 1 \in 1..Len(s)
    BY <1>3
  <2> HIDE DEF s, isP, r
  <2>4. (\E i \in 1..Len(s) - 1 : s[i + 1] = r)
          <=> (\E i \in 1..Len(s) : s[i] = r) /\ s[1] # r
    <3>1. ASSUME NEW i \in 1..Len(s) - 1, s[i + 1] = r
          PROVE  (\E j \in 1..Len(s) : s[j] = r) /\ s[1] # r
      BY <1>4, <2>2, <2>3, <3>1, Zenon
    <3>2. ASSUME NEW i \in 1..Len(s), s[i] = r, s[1] # r
          PROVE  \E j \in 1..Len(s) - 1 : s[j + 1] = r
      BY <2>1, <3>2, Zenon
    <3> QED BY <3>1, <3>2, Zenon
  <2> QED BY <1>3, <1>5, <1>6, <1>7, <2>4, Zenon DEF r
<1>9. isP => InHand(f, e, n)
  BY <1>3, <1>5, <1>6
<1>10. InHand(f, e, n) =>
         /\ ~InReading(ConflictGraph[f], e, n)
         /\ ~InQueue(ConflictGraph[f], e, n)
         /\ \A g \in BSs \ {f} : ConflictGraph[g] = ConflictGraph[f] => ~InHand(g, e, n)
  BY DEF InOnePlace
<1> HIDE DEF isP
<1>11. isP => Waits(ConflictGraph[f], e, n)
  BY <1>9 DEF Waits
<1>12. Waits(x, e, n)' <=> Waits(x, e, n) /\ ~(x = ConflictGraph[f] /\ isP)
  BY <1>2, <1>8, <1>9, <1>10, Zenon DEF Waits
<1> QED BY <1>2, <1>8, <1>11, <1>12 DEF isP

(* ComputeQuantum clears the queues of the clients that are elsewhere. *)
LEMMA QuantumWaits ==
  ASSUME TypeOK, NEW d \in Domains, ComputeQuantum(d),
         NEW x \in Domains, NEW e \in Clients, NEW n \in 1..MaxSeq
  PROVE  /\ InQueue(x, e, n)' <=> InQueue(x, e, n) /\ ~(x = d /\ e \notin ServedBy(d))
         /\ InReading(x, e, n)' <=> InReading(x, e, n)
         /\ \A f \in BSs : InHand(f, e, n)' <=> InHand(f, e, n)
         /\ Waits(x, e, n)' => Waits(x, e, n)
         /\ ~(x = d /\ e \notin ServedBy(d)) => (Waits(x, e, n)' <=> Waits(x, e, n))
<1>1. /\ pkts' = pkts /\ reading' = reading /\ oseq' = oseq
      /\ queues' = [queues EXCEPT ![d] = ClearOthers(@, d)]
  BY DEF ComputeQuantum
<1>2. queues'[x][e] = IF x = d /\ e \notin ServedBy(d) THEN <<>> ELSE queues[x][e]
  BY <1>1 DEF TypeOK, ClearOthers
<1>3. InQueue(x, e, n)' <=> InQueue(x, e, n) /\ ~(x = d /\ e \notin ServedBy(d))
  BY <1>2 DEF InQueue
<1>4. /\ InReading(x, e, n)' <=> InReading(x, e, n)
      /\ \A f \in BSs : InHand(f, e, n)' <=> InHand(f, e, n)
  BY <1>1 DEF InReading, InHand
<1> QED BY <1>3, <1>4 DEF Waits

(* UpdateRoutes, and a step that changes nothing, leave packets alone. *)
LEMMA SameWaits ==
  ASSUME pkts' = pkts, reading' = reading, oseq' = oseq, queues' = queues,
         NEW x, NEW e, NEW n
  PROVE  /\ InQueue(x, e, n)' <=> InQueue(x, e, n)
         /\ InReading(x, e, n)' <=> InReading(x, e, n)
         /\ \A f \in BSs : InHand(f, e, n)' <=> InHand(f, e, n)
         /\ Waits(x, e, n)' <=> Waits(x, e, n)
  BY DEF InQueue, InReading, InHand, Waits

-----------------------------------------------------------------------------
(* The parts of the invariant after each step *)

LEMMA PartsInit == Init => IInv
<1> SUFFICES ASSUME Init PROVE IInv
  OBVIOUS
<1>1. TypeOK
  BY TypeInit
<1>2. \A d \in Domains, c \in Clients : queues[d][c] = <<>>
  BY DEF Init
<1>3. \A f \in BSs : pkts[f] = <<>>
  BY DEF Init
<1>4. \A d \in Domains, c \in Clients, n \in 1..MaxSeq :
        /\ ~InReading(d, c, n) /\ ~InQueue(d, c, n) /\ ~Waits(d, c, n)
        /\ \A f \in BSs : ~InHand(f, c, n)
  BY <1>2, <1>3 DEF Init, InReading, InQueue, InHand, Waits
<1>5. NumbersOK
  BY <1>4 DEF Init, NumbersOK
<1>6. InOnePlace
  <2>1. \A d \in Domains, c \in Clients : DOMAIN queues[d][c] = {}
    BY <1>2
  <2>2. \A f \in BSs : DOMAIN pkts[f] = {}
    BY <1>3
  <2>3. \A f \in BSs, c \in Clients, n \in 1..MaxSeq : ~InHand(f, c, n)
    BY <1>3 DEF InHand
  <2> QED BY <1>4, <2>1, <2>2, <2>3, Zenon DEF InOnePlace, IsInjective
<1>7. DOMAIN route = {}
  BY DEF Init
<1>8. RoutesOK /\ ServedOK /\ StaleOK /\ DroppedOK
  <2>1. \A d \in Domains : ServedBy(d) = {} /\ Elsewhere(d) = {}
    BY <1>7 DEF Init, ServedBy, Elsewhere
  <2> QED BY <1>7, <2>1 DEF Init, RoutesOK, ServedOK, StaleOK, Settled, DroppedOK
<1>9. Accounted
  <2> SUFFICES ASSUME NEW c \in Clients, NEW n \in 1..MaxSeq
               PROVE  /\ n > oseq[c] /\ ~(n <= oseq[c])
                      /\ Unsent(c, n) /\ <<c, n>> \notin spread
    BY DEF Accounted
  <2>1. oseq[c] = 0 /\ spread = {} /\ n > 0
    BY DEF Init
  <2>2. Unsent(c, n)
    BY DEF Init, Unsent
  <2> QED BY <2>1, <2>2
<1>10. Kept
  <2>1. \A c \in Clients : oseq[c] = 0 /\ todo = {}
    BY DEF Init
  <2> QED BY <2>1 DEF Kept
<1> QED BY <1>1, <1>5, <1>6, <1>8, <1>9, <1>10 DEF IInv

LEMMA NumbersStep ==
  TypeOK /\ NumbersOK /\ InOnePlace /\ [Next]_vars => NumbersOK'
<1> SUFFICES ASSUME TypeOK, NumbersOK, InOnePlace, [Next]_vars PROVE NumbersOK'
  OBVIOUS
<1>1. ASSUME NEW c \in Clients, ReadTun(c) PROVE NumbersOK'
  <2>1. /\ reading' = EnqueueIn(c) \X {c} /\ oseq[c] \in Nat /\ oseq'[c] = oseq[c] + 1
        /\ \A e \in Clients : e # c => oseq'[e] = oseq[e]
    BY <1>1 DEF ReadTun, TypeOK
  <2>2. ASSUME NEW d \in Domains, NEW e \in Clients, NEW n \in 1..MaxSeq, Waits(d, e, n)'
        PROVE  n <= oseq'[e]
    <3>1. CASE e = c /\ n = oseq[c] + 1
      BY <2>1, <3>1
    <3>2. CASE ~(e = c /\ n = oseq[c] + 1)
      <4>1. n <= oseq[e]
        BY <1>1, <2>2, <3>2, ReadTunWaits DEF NumbersOK
      <4> QED BY <2>1, <4>1
    <3> QED BY <3>1, <3>2
  <2> QED BY <2>1, <2>2 DEF NumbersOK
<1>2. ASSUME NEW d \in Domains, NEW c \in Clients, Enqueue(d, c) PROVE NumbersOK'
  <2>1. reading' \subseteq reading /\ oseq' = oseq
    BY <1>2 DEF Enqueue
  <2>2. \A x \in Domains, e \in Clients, n \in 1..MaxSeq :
          Waits(x, e, n)' => Waits(x, e, n)
    BY <1>2, EnqueueWaits
  <2> QED BY <2>1, <2>2 DEF NumbersOK
<1>3. ASSUME NEW f \in BSs, NEW c \in Clients, Dequeue(f, c) PROVE NumbersOK'
  <2>1. reading' = reading /\ oseq' = oseq
    BY <1>3 DEF Dequeue
  <2>2. \A x \in Domains, e \in Clients, n \in 1..MaxSeq :
          Waits(x, e, n)' => Waits(x, e, n)
    BY <1>3, DequeueWaits
  <2> QED BY <2>1, <2>2 DEF NumbersOK
<1>4. ASSUME NEW f \in BSs, Send(f) PROVE NumbersOK'
  <2>1. reading' = reading /\ oseq' = oseq
    BY <1>4 DEF Send
  <2>2. \A x \in Domains, e \in Clients, n \in 1..MaxSeq :
          Waits(x, e, n)' => Waits(x, e, n)
    BY <1>4, SendWaits
  <2> QED BY <2>1, <2>2 DEF NumbersOK
<1>5. ASSUME NEW d \in Domains, ComputeQuantum(d) PROVE NumbersOK'
  <2>1. reading' = reading /\ oseq' = oseq
    BY <1>5 DEF ComputeQuantum
  <2>2. \A x \in Domains, e \in Clients, n \in 1..MaxSeq :
          Waits(x, e, n)' => Waits(x, e, n)
    BY <1>5, QuantumWaits
  <2> QED BY <2>1, <2>2 DEF NumbersOK
<1>6. ASSUME pkts' = pkts, reading' = reading, oseq' = oseq, queues' = queues
      PROVE  NumbersOK'
  <2>1. \A x \in Domains, e \in Clients, n \in 1..MaxSeq :
          Waits(x, e, n)' => Waits(x, e, n)
    BY <1>6, SameWaits
  <2> QED BY <1>6, <2>1 DEF NumbersOK
<1>7. UpdateRoutes \/ UNCHANGED vars
        => pkts' = pkts /\ reading' = reading /\ oseq' = oseq /\ queues' = queues
  BY DEF UpdateRoutes, vars
<1> QED BY <1>1, <1>2, <1>3, <1>4, <1>5, <1>6, <1>7 DEF Next

(* A step that only takes packets out of where they are. *)
LEMMA StillInOnePlace ==
  ASSUME InOnePlace,
         \A d \in Domains, c \in Clients, n \in 1..MaxSeq :
           /\ InQueue(d, c, n)' => InQueue(d, c, n)
           /\ InReading(d, c, n)' => InReading(d, c, n)
           /\ \A f \in BSs : InHand(f, c, n)' => InHand(f, c, n),
         \A d \in Domains, c \in Clients : IsInjective(queues'[d][c]),
         \A f \in BSs : IsInjective(pkts'[f])
  PROVE  InOnePlace'
<1>1. \A f \in BSs : ConflictGraph[f] \in Domains
  BY ControllerAssumption
<1>2. \A f \in BSs, c \in Clients, n \in 1..MaxSeq : InHand(f, c, n)' => InHand(f, c, n)
  BY <1>1
<1> QED BY <1>1, <1>2, Zenon DEF InOnePlace

LEMMA InOnePlaceStep ==
  TypeOK /\ NumbersOK /\ InOnePlace /\ [Next]_vars => InOnePlace'
<1> SUFFICES ASSUME TypeOK, NumbersOK, InOnePlace, [Next]_vars PROVE InOnePlace'
  OBVIOUS
<1>0. \A f \in BSs : ConflictGraph[f] \in Domains
  BY ControllerAssumption
<1>1. ASSUME NEW c \in Clients, ReadTun(c) PROVE InOnePlace'
  <2>1. queues' = queues /\ pkts' = pkts /\ oseq[c] \in Nat
    BY <1>1 DEF ReadTun, TypeOK
  <2>2. \A d \in Domains, e \in Clients, n \in 1..MaxSeq : InReading(d, e, n)' => ~Waits(d, e, n)
    <3> SUFFICES ASSUME NEW d \in Domains, NEW e \in Clients, NEW n \in 1..MaxSeq,
                        InReading(d, e, n)'
                 PROVE  ~Waits(d, e, n)
      OBVIOUS
    <3>1. e = c /\ n = oseq[c] + 1
      BY <1>1, ReadTunWaits
    <3>2. ~(oseq[c] + 1 <= oseq[c])
      BY <2>1
    <3> QED BY <3>1, <3>2 DEF NumbersOK
  <2>3. \A d \in Domains, e \in Clients, n \in 1..MaxSeq :
          (InQueue(d, e, n)' <=> InQueue(d, e, n))
          /\ \A f \in BSs : InHand(f, e, n)' <=> InHand(f, e, n)
    BY <1>1, ReadTunWaits
  <2>4. \A d \in Domains, e \in Clients, n \in 1..MaxSeq :
          ~Waits(d, e, n) => /\ ~InQueue(d, e, n)
                             /\ \A f \in BSs : ConflictGraph[f] = d => ~InHand(f, e, n)
    BY DEF Waits
  <2> QED BY <1>0, <2>1, <2>2, <2>3, <2>4, Zenon DEF InOnePlace
<1>2. ASSUME NEW d \in Domains, NEW c \in Clients, Enqueue(d, c), ~IsFull(queues[d][c])
      PROVE  InOnePlace'
  <2> DEFINE q == queues[d][c]
  <2>1. /\ pkts' = pkts /\ <<d, c>> \in reading /\ InReading(d, c, oseq[c])
        /\ queues' = [queues EXCEPT ![d][c] = Append(@, oseq[c])]
    BY <1>2 DEF Enqueue, InReading
  <2>2. oseq[c] \in 1..MaxSeq
    <3>1. oseq[c] > 0 /\ oseq[c] \in 0..MaxSeq
      BY <2>1 DEF NumbersOK, TypeOK
    <3> QED BY <3>1, ControllerAssumption
  <2>3. q \in Seq(1..MaxSeq) /\ queues'[d][c] = Append(q, oseq[c])
        /\ \A x \in Domains, e \in Clients :
             ~(x = d /\ e = c) => queues'[x][e] = queues[x][e]
    BY <2>1 DEF TypeOK
  <2>4. /\ DOMAIN q = 1..Len(q) /\ Len(q) \in Nat
        /\ DOMAIN Append(q, oseq[c]) = 1..Len(q) + 1
        /\ \A i \in 1..Len(q) : Append(q, oseq[c])[i] = q[i]
        /\ Append(q, oseq[c])[Len(q) + 1] = oseq[c]
    BY <2>2, <2>3, AppendProperties, LenProperties
  <2>5. ~InQueue(d, c, oseq[c])
    BY <2>1, <2>2 DEF InOnePlace
  <2>6. \A i \in 1..Len(q) : q[i] # oseq[c]
    BY <2>4, <2>5 DEF InQueue
  <2>7. \A i, j \in 1..Len(q) : q[i] = q[j] => i = j
    BY <2>4 DEF InOnePlace, IsInjective
  <2>8. IsInjective(queues'[d][c])
    <3> DEFINE r == queues'[d][c]
    <3>1. /\ DOMAIN r = 1..Len(q) + 1 /\ r[Len(q) + 1] = oseq[c]
          /\ \A i \in 1..Len(q) : r[i] = q[i]
      BY <2>3, <2>4
    <3>2. \A i \in 1..Len(q) + 1 : i \in 1..Len(q) \/ i = Len(q) + 1
      BY <2>4
    <3> HIDE DEF r, q
    <3> QED BY <2>6, <2>7, <3>1, <3>2, Zenon DEF r, IsInjective
  <2>9. \A x \in Domains, e \in Clients : IsInjective(queues'[x][e])
    <3> SUFFICES ASSUME NEW x \in Domains, NEW e \in Clients
                 PROVE  IsInjective(queues'[x][e])
      OBVIOUS
    <3>1. CASE x = d /\ e = c
      BY <2>8, <3>1
    <3>2. CASE ~(x = d /\ e = c)
      BY <2>3, <3>2 DEF InOnePlace
    <3> QED BY <3>1, <3>2
  <2> HIDE DEF q
  <2>10. \A x \in Domains, e \in Clients, n \in 1..MaxSeq :
           /\ InQueue(x, e, n)' <=> InQueue(x, e, n) \/ (x = d /\ e = c /\ n = oseq[c])
           /\ \A f \in BSs : InHand(f, e, n)' <=> InHand(f, e, n)
           /\ InReading(x, e, n)' <=> InReading(x, e, n) /\ ~(x = d /\ e = c)
    BY <1>2, EnqueueWaits
  <2>11. \A f \in BSs, e \in Clients, n \in 1..MaxSeq : InHand(f, e, n) =>
           ~(ConflictGraph[f] = d /\ e = c /\ n = oseq[c])
    BY <2>1 DEF InOnePlace
  <2>12. \A x \in Domains, e \in Clients, n \in 1..MaxSeq :
           ~(InReading(x, e, n)' /\ InQueue(x, e, n)')
    BY <2>10 DEF InOnePlace
  <2>13. ASSUME NEW f \in BSs, NEW e \in Clients, NEW n \in 1..MaxSeq, InHand(f, e, n)'
         PROVE  /\ ~InReading(ConflictGraph[f], e, n)'
                /\ ~InQueue(ConflictGraph[f], e, n)'
                /\ \A g \in BSs \ {f} : ConflictGraph[g] = ConflictGraph[f] => ~InHand(g, e, n)'
    <3>1. InHand(f, e, n)
      BY <1>0, <2>10, <2>13
    <3>2. /\ ~InReading(ConflictGraph[f], e, n)
          /\ ~InQueue(ConflictGraph[f], e, n)
          /\ \A g \in BSs \ {f} : ConflictGraph[g] = ConflictGraph[f] => ~InHand(g, e, n)
      BY <3>1 DEF InOnePlace
    <3> QED BY <1>0, <2>10, <2>11, <3>1, <3>2
  <2> QED BY <2>1, <2>9, <2>12, <2>13, Zenon DEF InOnePlace
<1>8. ASSUME NEW d \in Domains, NEW c \in Clients, Enqueue(d, c), IsFull(queues[d][c])
      PROVE  InOnePlace'
  <2>1. pkts' = pkts /\ queues' = queues
    BY <1>8 DEF Enqueue
  <2>2. \A x \in Domains, e \in Clients, n \in 1..MaxSeq :
          /\ InQueue(x, e, n)' => InQueue(x, e, n)
          /\ InReading(x, e, n)' => InReading(x, e, n)
          /\ \A f \in BSs : InHand(f, e, n)' => InHand(f, e, n)
    BY <1>8, EnqueueWaits
  <2>3. /\ \A x \in Domains, e \in Clients : IsInjective(queues'[x][e])
        /\ \A f \in BSs : IsInjective(pkts'[f])
    BY <2>1 DEF InOnePlace
  <2> QED BY <2>2, <2>3, StillInOnePlace
<1>3. ASSUME NEW f \in BSs, NEW c \in Clients, Dequeue(f, c) PROVE InOnePlace'
  <2> DEFINE d == ConflictGraph[f]
             q == queues[d][c]
  <2>1. q \in Seq(1..MaxSeq)
    BY <1>0 DEF TypeOK
  <2>2. PICK m \in 1..Len(q) :
           /\ pkts' = [pkts EXCEPT ![f] = [i \in 1..m |-> [client |-> c, seq |-> q[i]]]]
           /\ queues' = [queues EXCEPT ![d][c] = SubSeq(q, m + 1, Len(q))]
    BY <1>3 DEF Dequeue
  <2>3. /\ pkts'[f] = [i \in 1..m |-> [client |-> c, seq |-> q[i]]]
        /\ \A g \in BSs \ {f} : pkts'[g] = pkts[g]
        /\ queues'[d][c] = SubSeq(q, m + 1, Len(q))
        /\ \A x \in Domains, e \in Clients :
             ~(x = d /\ e = c) => queues'[x][e] = queues[x][e]
    BY <1>0, <2>2 DEF TypeOK
  <2>4. /\ DOMAIN SubSeq(q, m + 1, Len(q)) = 1..Len(q) - m
        /\ \A i \in 1..Len(q) - m : SubSeq(q, m + 1, Len(q))[i] = q[m + i]
        /\ DOMAIN q = 1..Len(q) /\ Len(q) \in Nat
    BY <2>1, <2>2, BatchType
  <2>5. \A i, j \in 1..Len(q) : q[i] = q[j] => i = j
    BY <1>0, <2>4 DEF InOnePlace, IsInjective
  <2>6. m \in Nat /\ Len(q) \in Nat /\ m <= Len(q)
    BY <2>4
  <2>7. IsInjective(queues'[d][c])
    <3> DEFINE r == queues'[d][c]
    <3>1. DOMAIN r = 1..Len(q) - m /\ \A i \in 1..Len(q) - m : r[i] = q[m + i]
      BY <2>3, <2>4
    <3>2. \A i, j \in 1..Len(q) - m :
            m + i \in 1..Len(q) /\ m + j \in 1..Len(q) /\ (m + i = m + j => i = j)
      BY <2>6
    <3> HIDE DEF r, q
    <3> QED BY <2>5, <3>1, <3>2, Zenon DEF r, IsInjective
  <2>8. IsInjective(pkts'[f])
    <3> DEFINE r == pkts'[f]
    <3>1. DOMAIN r = 1..m /\ \A i \in 1..m : r[i] = [client |-> c, seq |-> q[i]]
      BY <2>3
    <3>2. \A i \in 1..m : i \in 1..Len(q)
      BY <2>6
    <3> HIDE DEF r, q
    <3>3. ASSUME NEW i \in 1..m, NEW j \in 1..m, r[i] = r[j] PROVE i = j
      <4>1. [client |-> c, seq |-> q[i]] = [client |-> c, seq |-> q[j]]
        BY <3>1, <3>3
      <4>2. q[i] = q[j]
        BY <4>1, SamePacket
      <4> QED BY <2>5, <3>2, <4>2
    <3> QED BY <3>1, <3>3 DEF r, IsInjective
  <2>9. \A x \in Domains, e \in Clients : IsInjective(queues'[x][e])
    <3> SUFFICES ASSUME NEW x \in Domains, NEW e \in Clients
                 PROVE  IsInjective(queues'[x][e])
      OBVIOUS
    <3>1. CASE x = d /\ e = c
      BY <2>7, <3>1
    <3>2. CASE ~(x = d /\ e = c)
      BY <2>3, <3>2 DEF InOnePlace
    <3> QED BY <3>1, <3>2
  <2>10. \A g \in BSs : IsInjective(pkts'[g])
    BY <2>3, <2>8 DEF InOnePlace
  <2>11. \A x \in Domains, e \in Clients, n \in 1..MaxSeq :
           /\ InQueue(x, e, n) <=> InQueue(x, e, n)' \/ (x = d /\ InHand(f, e, n)')
           /\ ~(InQueue(x, e, n)' /\ x = d /\ InHand(f, e, n)')
           /\ \A g \in BSs \ {f} : InHand(g, e, n)' <=> InHand(g, e, n)
           /\ InReading(x, e, n)' <=> InReading(x, e, n)
    BY <1>3, DequeueWaits
  <2> HIDE DEF d, q
  <2>12. \A x \in Domains, e \in Clients, n \in 1..MaxSeq :
           ~(InReading(x, e, n)' /\ InQueue(x, e, n)')
    BY <2>11 DEF InOnePlace
  <2>13. ASSUME NEW h \in BSs, NEW e \in Clients, NEW n \in 1..MaxSeq, InHand(h, e, n)'
         PROVE  /\ ~InReading(ConflictGraph[h], e, n)'
                /\ ~InQueue(ConflictGraph[h], e, n)'
                /\ \A g \in BSs \ {h} : ConflictGraph[g] = ConflictGraph[h] => ~InHand(g, e, n)'
    <3>1. CASE h = f
      <4>1. d \in Domains /\ ConflictGraph[h] = d
        BY <1>0, <3>1 DEF d
      <4>2. InQueue(d, e, n)
        BY <2>11, <2>13, <3>1, <4>1
      <4>3. ~InReading(d, e, n)' /\ ~InQueue(d, e, n)'
        BY <2>11, <2>13, <3>1, <4>1, <4>2 DEF InOnePlace
      <4>4. ASSUME NEW g \in BSs \ {h}, ConflictGraph[g] = ConflictGraph[h] PROVE ~InHand(g, e, n)'
        <5>1. InHand(g, e, n)' <=> InHand(g, e, n)
          BY <1>0, <2>11, <3>1
        <5>2. InHand(g, e, n) => ~InQueue(ConflictGraph[g], e, n)
          BY DEF InOnePlace
        <5> QED BY <4>1, <4>2, <4>4, <5>1, <5>2
      <4> QED BY <4>1, <4>3, <4>4
    <3>2. CASE h # f
      <4>1. InHand(h, e, n)
        BY <1>0, <2>11, <2>13, <3>2
      <4>2. /\ ~InReading(ConflictGraph[h], e, n)
            /\ ~InQueue(ConflictGraph[h], e, n)
            /\ \A g \in BSs \ {h} : ConflictGraph[g] = ConflictGraph[h] => ~InHand(g, e, n)
        BY <4>1 DEF InOnePlace
      <4>3. ~InReading(ConflictGraph[h], e, n)' /\ ~InQueue(ConflictGraph[h], e, n)'
        BY <1>0, <2>11, <4>2
      <4>4. ASSUME NEW g \in BSs \ {h}, ConflictGraph[g] = ConflictGraph[h] PROVE ~InHand(g, e, n)'
        <5>1. CASE g = f
          BY <1>0, <2>11, <4>2, <4>4, <5>1 DEF d
        <5>2. CASE g # f
          BY <1>0, <2>11, <4>2, <4>4, <5>2
        <5> QED BY <5>1, <5>2
      <4> QED BY <4>3, <4>4
    <3> QED BY <3>1, <3>2
  <2> QED BY <2>9, <2>10, <2>12, <2>13, Zenon DEF InOnePlace
<1>4. ASSUME NEW f \in BSs, Send(f) PROVE InOnePlace'
  <2> DEFINE s == pkts[f]
  <2>1. /\ queues' = queues /\ s # <<>> /\ s \in Seq(Packet)
        /\ pkts'[f] = Tail(s) /\ \A g \in BSs \ {f} : pkts'[g] = pkts[g]
    BY <1>4 DEF Send, TypeOK
  <2>2. /\ DOMAIN s = 1..Len(s) /\ Len(s) \in Nat \ {0}
        /\ DOMAIN Tail(s) = 1..Len(s) - 1
        /\ \A i \in 1..Len(s) - 1 : Tail(s)[i] = s[i + 1]
    <3>1. /\ Tail(s) \in Seq(Packet) /\ Len(Tail(s)) = Len(s) - 1
          /\ \A i \in 1..Len(Tail(s)) : Tail(s)[i] = s[i + 1]
      BY <2>1, HeadTailProperties
    <3>2. DOMAIN s = 1..Len(s) /\ Len(s) \in Nat \ {0}
      BY <2>1, LenProperties, EmptySeq
    <3> QED BY <3>1, <3>2, LenProperties
  <2>3. \A i, j \in 1..Len(s) : s[i] = s[j] => i = j
    BY <2>2 DEF InOnePlace, IsInjective
  <2>4. IsInjective(Tail(s))
    <3> DEFINE r == Tail(s)
    <3>1. \A i, j \in 1..Len(s) - 1 :
            i + 1 \in 1..Len(s) /\ j + 1 \in 1..Len(s) /\ (i + 1 = j + 1 => i = j)
      BY <2>2
    <3>2. DOMAIN r = 1..Len(s) - 1 /\ \A i \in 1..Len(s) - 1 : r[i] = s[i + 1]
      BY <2>2
    <3> HIDE DEF r, s
    <3> QED BY <2>3, <3>1, <3>2, Zenon DEF r, IsInjective
  <2>5. \A g \in BSs : IsInjective(pkts'[g])
    BY <2>1, <2>4 DEF InOnePlace
  <2>6. \A x \in Domains, e \in Clients, n \in 1..MaxSeq :
          /\ InQueue(x, e, n)' => InQueue(x, e, n)
          /\ InReading(x, e, n)' => InReading(x, e, n)
          /\ \A g \in BSs : InHand(g, e, n)' => InHand(g, e, n)
    BY <1>4, SendWaits
  <2>7. \A x \in Domains, e \in Clients : IsInjective(queues'[x][e])
    BY <2>1 DEF InOnePlace
  <2> QED BY <2>5, <2>6, <2>7, StillInOnePlace
<1>5. ASSUME NEW d \in Domains, ComputeQuantum(d) PROVE InOnePlace'
  <2>1. pkts' = pkts /\ queues' = [queues EXCEPT ![d] = ClearOthers(@, d)]
    BY <1>5 DEF ComputeQuantum
  <2>2. \A x \in Domains, e \in Clients : IsInjective(queues'[x][e])
    <3> SUFFICES ASSUME NEW x \in Domains, NEW e \in Clients
                 PROVE  IsInjective(queues'[x][e])
      OBVIOUS
    <3>1. queues'[x][e] = queues[x][e] \/ queues'[x][e] = <<>>
      BY <2>1 DEF TypeOK, ClearOthers
    <3>2. IsInjective(<<>>)
      BY DEF IsInjective
    <3> QED BY <3>1, <3>2 DEF InOnePlace
  <2>3. \A x \in Domains, e \in Clients, n \in 1..MaxSeq :
          /\ InQueue(x, e, n)' => InQueue(x, e, n)
          /\ InReading(x, e, n)' => InReading(x, e, n)
          /\ \A g \in BSs : InHand(g, e, n)' => InHand(g, e, n)
    BY <1>5, QuantumWaits
  <2>4. \A g \in BSs : IsInjective(pkts'[g])
    BY <2>1 DEF InOnePlace
  <2> QED BY <2>2, <2>3, <2>4, StillInOnePlace
<1>6. ASSUME pkts' = pkts, reading' = reading, oseq' = oseq, queues' = queues
      PROVE  InOnePlace'
  BY <1>6, SameWaits DEF InOnePlace, InReading, InQueue, InHand
<1>7. UpdateRoutes \/ UNCHANGED vars
        => pkts' = pkts /\ reading' = reading /\ oseq' = oseq /\ queues' = queues
  BY DEF UpdateRoutes, vars
<1> QED BY <1>1, <1>2, <1>3, <1>4, <1>5, <1>6, <1>7, <1>8 DEF Next

LEMMA RoutesStep == TypeOK /\ RoutesOK /\ [Next]_vars => RoutesOK'
<1> SUFFICES ASSUME TypeOK, RoutesOK, [Next]_vars PROVE RoutesOK'
  OBVIOUS
<1>1. ASSUME UpdateRoutes PROVE RoutesOK'
  <2>1. PICK r \in NewRoutes :
          route' = r /\ mode' = mode /\ todo' = {ConflictGraph[r[c]] : c \in DOMAIN r}
    BY <1>1 DEF UpdateRoutes
  <2>2. mode # "Optimizer" => DOMAIN r = Clients
    BY DEF NewRoutes
  <2> QED BY <2>1, <2>2 DEF RoutesOK, DomainOf
<1>2. ASSUME NEW d \in Domains, ComputeQuantum(d) PROVE RoutesOK'
  BY <1>2 DEF ComputeQuantum, RoutesOK, DomainOf
<1>3. ASSUME mode' = mode, route' = route, todo' = todo PROVE RoutesOK'
  BY <1>3 DEF RoutesOK, DomainOf
<1> QED BY <1>1, <1>2, <1>3 DEF Next, ReadTun, Enqueue, Dequeue, Send, vars

LEMMA LeftFinite ==
  ASSUME NEW c, NEW n
  PROVE  IsFiniteSet(Left(c, n)) /\ Cardinality(Left(c, n)) \in Nat
<1>1. Left(c, n) \subseteq Domains
  BY DEF Left
<1> QED BY <1>1, ControllerAssumption, FS_Subset, FS_CardinalityType

(* A step that sends nothing and brings no packet into a domain. *)
LEMMA StillAccounted ==
  ASSUME TypeOK, Accounted, sent' = sent, oseq' = oseq, spread' = spread, mode' = mode,
         mode # "Optimizer" => \A c \in Clients : HasRoute(c) => HasRoute(c)',
         \A d \in Domains, c \in Clients, n \in 1..MaxSeq : Waits(d, c, n)' => Waits(d, c, n)
  PROVE  Accounted'
<1> SUFFICES ASSUME NEW c \in Clients, NEW n \in 1..MaxSeq
             PROVE  /\ Unsent(c, n) => Unsent(c, n)'
                    /\ SpreadOK(c, n) => SpreadOK(c, n)'
                    /\ SingleOK(c, n) => SingleOK(c, n)'
  BY DEF Accounted
<1>1. Unsent(c, n)' <=> Unsent(c, n)
  BY DEF Unsent
<1>2. ASSUME SpreadOK(c, n) PROVE SpreadOK(c, n)'
  <2>1. Left(c, n) \subseteq Left(c, n)'
    BY DEF Left
  <2>2. Left(c, n)' \subseteq Domains
    BY DEF Left
  <2>3. Cardinality(Left(c, n)) <= Cardinality(Left(c, n)')
    BY <2>1, <2>2, ControllerAssumption, FS_Subset
  <2>4. Cardinality(Left(c, n)) \in Nat /\ Cardinality(Left(c, n)') \in Nat
    BY <2>2, LeftFinite, ControllerAssumption, FS_Subset, FS_CardinalityType
  <2>5. ASSUME NEW b \in BSs PROVE sent[c][n][b] <= Cardinality(Left(c, n)')
    <3>1. sent[c][n][b] <= Cardinality(Left(c, n))
      BY <1>2 DEF SpreadOK
    <3>2. sent[c][n] \in [BSs -> Nat]
      BY DEF TypeOK
    <3> QED BY <2>3, <2>4, <3>1, <3>2
  <2> QED BY <2>5 DEF SpreadOK
<1>3. ASSUME SingleOK(c, n) PROVE SingleOK(c, n)'
  <2>1. \A d \in Domains : Waits(d, c, n)' => Waits(d, c, n)
    OBVIOUS
  <2>2. WaitsNowhere(c, n) => WaitsNowhere(c, n)'
    BY <2>1 DEF WaitsNowhere
  <2> QED BY <1>1, <1>3, <2>1, <2>2 DEF SingleOK
<1> QED BY <1>1, <1>2, <1>3

LEMMA AccountedStep ==
  TypeOK /\ NumbersOK /\ InOnePlace /\ RoutesOK /\ Accounted /\ [Next]_vars => Accounted'
<1> SUFFICES ASSUME TypeOK, NumbersOK, InOnePlace, RoutesOK, Accounted, [Next]_vars
             PROVE  Accounted'
  OBVIOUS
<1>1. ASSUME NEW c \in Clients, ReadTun(c) PROVE Accounted'
  <2>1. /\ oseq[c] \in Nat /\ oseq'[c] = oseq[c] + 1
        /\ \A e \in Clients : e # c => oseq'[e] = oseq[e]
        /\ \A e \in Clients : oseq[e] \in Nat
        /\ sent' = sent /\ route' = route /\ mode' = mode
        /\ spread' = IF HasRoute(c) THEN spread ELSE spread \cup {<<c, oseq[c] + 1>>}
    BY <1>1 DEF ReadTun, TypeOK
  <2> SUFFICES ASSUME NEW e \in Clients, NEW n \in 1..MaxSeq
               PROVE  /\ n > oseq'[e] => Unsent(e, n)' /\ <<e, n>> \notin spread'
                      /\ n <= oseq'[e] => IF <<e, n>> \in spread' THEN SpreadOK(e, n)'
                                                                  ELSE SingleOK(e, n)'
    BY DEF Accounted
  <2>2. Unsent(e, n)' <=> Unsent(e, n)
    BY <2>1 DEF Unsent
  <2>3. CASE e = c /\ n = oseq[c] + 1
    <3>1. n > oseq[e] /\ n <= oseq'[e] /\ ~(n > oseq'[e])
      BY <2>1, <2>3
    <3>2. Unsent(e, n) /\ <<e, n>> \notin spread
      BY <3>1 DEF Accounted
    <3>3. \A d \in Domains : Waits(d, e, n)' <=> d \in EnqueueIn(c)
      BY <1>1, <2>3, ReadTunWaits
    <3>4. CASE HasRoute(c)
      <4>1. EnqueueIn(c) = {DomainOf(c)} /\ <<e, n>> \notin spread'
        BY <2>1, <3>2, <3>4 DEF EnqueueIn
      <4>2. \A b \in BSs : sent'[e][n][b] = 0
        BY <2>1, <3>2 DEF Unsent
      <4>3. HasRoute(e)'
        BY <2>1, <2>3, <3>4 DEF HasRoute
      <4>4. SingleOK(e, n)'
        BY <2>2, <3>2, <3>3, <4>1, <4>2, <4>3 DEF SingleOK
      <4> QED BY <3>1, <4>1, <4>4
    <3>5. CASE ~HasRoute(c)
      <4>1. <<e, n>> \in spread'
        BY <2>1, <2>3, <3>5
      <4>2. Cardinality(Left(e, n)') \in Nat
        <5>1. Left(e, n)' \subseteq Domains
          BY DEF Left
        <5> QED BY <5>1, ControllerAssumption, FS_Subset, FS_CardinalityType
      <4>3. \A b \in BSs : sent'[e][n][b] = 0
        BY <2>1, <3>2 DEF Unsent
      <4>4. SpreadOK(e, n)'
        BY <4>2, <4>3 DEF SpreadOK
      <4> QED BY <3>1, <4>1, <4>4
    <3> QED BY <3>4, <3>5
  <2>4. CASE ~(e = c /\ n = oseq[c] + 1)
    <3>1. /\ n > oseq'[e] => n > oseq[e]
          /\ n <= oseq'[e] => n <= oseq[e]
      BY <2>1, <2>4
    <3>2. <<e, n>> \in spread' <=> <<e, n>> \in spread
      BY <2>1, <2>4
    <3>3. \A d \in Domains : Waits(d, e, n)' <=> Waits(d, e, n)
      BY <1>1, <2>4, ReadTunWaits
    <3>4. Left(e, n)' = Left(e, n) /\ (WaitsNowhere(e, n)' <=> WaitsNowhere(e, n))
      BY <3>3 DEF Left, WaitsNowhere
    <3>5. SpreadOK(e, n)' <=> SpreadOK(e, n)
      BY <2>1, <3>4 DEF SpreadOK
    <3>6. SingleOK(e, n)' <=> SingleOK(e, n)
      BY <2>1, <2>2, <3>3, <3>4 DEF SingleOK, HasRoute
    <3> QED BY <2>2, <3>1, <3>2, <3>5, <3>6 DEF Accounted
  <2> QED BY <2>3, <2>4
<1>2. ASSUME NEW d \in Domains, NEW c \in Clients, Enqueue(d, c) PROVE Accounted'
  <2>1. /\ sent' = sent /\ oseq' = oseq /\ spread' = spread /\ mode' = mode
        /\ \A e \in Clients : HasRoute(e) => HasRoute(e)'
    BY <1>2 DEF Enqueue, HasRoute
  <2>2. \A x \in Domains, e \in Clients, n \in 1..MaxSeq : Waits(x, e, n)' => Waits(x, e, n)
    BY <1>2, EnqueueWaits
  <2> QED BY <2>1, <2>2, StillAccounted
<1>3. ASSUME NEW f \in BSs, NEW c \in Clients, Dequeue(f, c) PROVE Accounted'
  <2>1. /\ sent' = sent /\ oseq' = oseq /\ spread' = spread /\ mode' = mode
        /\ \A e \in Clients : HasRoute(e) => HasRoute(e)'
    BY <1>3 DEF Dequeue, HasRoute
  <2>2. \A x \in Domains, e \in Clients, n \in 1..MaxSeq : Waits(x, e, n)' => Waits(x, e, n)
    BY <1>3, DequeueWaits
  <2> QED BY <2>1, <2>2, StillAccounted
<1>4. ASSUME NEW f \in BSs, Send(f) PROVE Accounted'
  <2> DEFINE p == Head(pkts[f])
             d == ConflictGraph[f]
  <2>1. /\ oseq' = oseq /\ spread' = spread /\ mode' = mode /\ route' = route
        /\ sent' = [sent EXCEPT ![p.client][p.seq] =
                      [b \in BSs |-> @[b] + IF b \in SendTo(p.client) THEN 1 ELSE 0]]
        /\ d \in Domains
    BY <1>4, ControllerAssumption DEF Send
  <2> SUFFICES ASSUME NEW e \in Clients, NEW n \in 1..MaxSeq
               PROVE  /\ n > oseq[e] => Unsent(e, n)' /\ <<e, n>> \notin spread
                      /\ n <= oseq[e] => IF <<e, n>> \in spread THEN SpreadOK(e, n)'
                                                                ELSE SingleOK(e, n)'
    BY <2>1 DEF Accounted
  <2> DEFINE isP == e = p.client /\ n = p.seq
  <2>2. /\ isP => Waits(d, e, n)
        /\ \A x \in Domains : Waits(x, e, n)' <=> Waits(x, e, n) /\ ~(x = d /\ isP)
    <3>1. d \in Domains
      BY <2>1
    <3>2. ASSUME NEW x \in Domains
          PROVE  /\ isP => Waits(d, e, n)
                 /\ Waits(x, e, n)' <=> Waits(x, e, n) /\ ~(x = d /\ isP)
      BY <1>4, SendWaits
    <3> HIDE DEF d, isP
    <3> QED BY <3>1, <3>2
  <2>3. CASE isP
    <3>1. p.client = e /\ p.seq = n
      BY <2>3
    <3>2. /\ \A b \in BSs : sent'[e][n][b] = sent[e][n][b] + IF b \in SendTo(e) THEN 1 ELSE 0
          /\ \A b \in BSs : sent[e][n][b] \in Nat
      <4> HIDE DEF p
      <4>1. sent'[e][n] = [b \in BSs |-> sent[e][n][b] + IF b \in SendTo(e) THEN 1 ELSE 0]
        BY <2>1, <3>1 DEF TypeOK
      <4>2. sent[e][n] \in [BSs -> Nat]
        BY DEF TypeOK
      <4> QED BY <4>1, <4>2
    <3> HIDE DEF p, isP, d
    <3>3. Waits(d, e, n) /\ \A x \in Domains : Waits(x, e, n)' <=> Waits(x, e, n) /\ x # d
      BY <2>2, <2>3
    <3>4. n <= oseq[e] /\ ~(n > oseq[e])
      <4>1. n <= oseq[e] /\ oseq[e] \in Nat
        BY <2>1, <3>3 DEF NumbersOK, TypeOK
      <4> QED BY <4>1
    <3>5. ASSUME SpreadOK(e, n) PROVE SpreadOK(e, n)'
      <4>1. Left(e, n)' = Left(e, n) \cup {d} /\ d \notin Left(e, n)
        BY <2>1, <3>3 DEF Left
      <4>2. /\ Cardinality(Left(e, n)') = Cardinality(Left(e, n)) + 1
            /\ Cardinality(Left(e, n)) \in Nat
        BY <4>1, LeftFinite, FS_AddElement
      <4>3. ASSUME NEW b \in BSs PROVE sent'[e][n][b] <= Cardinality(Left(e, n)')
        <5>1. sent[e][n][b] <= Cardinality(Left(e, n))
          BY <3>5 DEF SpreadOK
        <5>2. /\ sent'[e][n][b] = sent[e][n][b] \/ sent'[e][n][b] = sent[e][n][b] + 1
              /\ sent[e][n][b] \in Nat
          BY <3>2
        <5> QED BY <4>2, <5>1, <5>2
      <4> QED BY <4>3 DEF SpreadOK
    <3>6. ASSUME SingleOK(e, n) PROVE SingleOK(e, n)'
      <4>1. \A x, y \in Domains : Waits(x, e, n) /\ Waits(y, e, n) => x = y
        BY <3>6 DEF SingleOK
      <4>2. WaitsNowhere(e, n)'
        BY <2>1, <3>3, <4>1 DEF WaitsNowhere
      <4>3. Unsent(e, n)
        BY <2>1, <3>3, <3>6 DEF SingleOK, WaitsNowhere
      <4>4. \A b \in BSs : sent'[e][n][b] = IF b \in SendTo(e) THEN 1 ELSE 0
        BY <3>2, <4>3 DEF Unsent
      <4>5. \A b \in BSs : sent'[e][n][b] <= 1
        BY <4>4
      <4>6. mode # "Optimizer" => HasRoute(e) /\ HasRoute(e)'
        BY <2>1, <3>6 DEF SingleOK, HasRoute
      <4>7. ASSUME mode = "MaxThroughput" PROVE \A b \in BSs : sent'[e][n][b] > 0 => b = route[e]
        <5>1. SendTo(e) = {route[e]}
          BY <4>6, <4>7 DEF SendTo
        <5> QED BY <4>4, <5>1
      <4>8. \A x, y \in Domains : Waits(x, e, n)' /\ Waits(y, e, n)' => x = y
        BY <4>2 DEF WaitsNowhere
      <4> QED BY <2>1, <4>2, <4>5, <4>6, <4>7, <4>8 DEF SingleOK
    <3> QED BY <3>4, <3>5, <3>6 DEF Accounted
  <2>4. CASE ~isP
    <3>1. sent'[e][n] = sent[e][n]
      <4>1. p.client \in Clients /\ p.seq \in 1..MaxSeq
        BY <1>4, HeadInBatch DEF Send, Packet
      <4> QED BY <2>1, <2>4, <4>1 DEF TypeOK
    <3> HIDE DEF p, isP, d
    <3>2. \A x \in Domains : Waits(x, e, n)' <=> Waits(x, e, n)
      BY <2>2, <2>4
    <3>3. Left(e, n)' = Left(e, n) /\ (WaitsNowhere(e, n)' <=> WaitsNowhere(e, n))
      BY <3>2 DEF Left, WaitsNowhere
    <3>4. Unsent(e, n)' <=> Unsent(e, n)
      BY <3>1 DEF Unsent
    <3>5. SpreadOK(e, n)' <=> SpreadOK(e, n)
      BY <3>1, <3>3 DEF SpreadOK
    <3>6. SingleOK(e, n)' <=> SingleOK(e, n)
      BY <2>1, <3>1, <3>2, <3>3, <3>4 DEF SingleOK, HasRoute
    <3> QED BY <3>4, <3>5, <3>6 DEF Accounted
  <2> QED BY <2>3, <2>4
<1>5. ASSUME UpdateRoutes PROVE Accounted'
  <2>1. /\ sent' = sent /\ oseq' = oseq /\ spread' = spread /\ mode' = mode
        /\ pkts' = pkts /\ reading' = reading /\ queues' = queues
    BY <1>5 DEF UpdateRoutes
  <2>2. mode # "Optimizer" => \A c \in Clients : HasRoute(c)'
    BY <1>5 DEF UpdateRoutes, NewRoutes, HasRoute
  <2>3. \A x \in Domains, e \in Clients, n \in 1..MaxSeq : Waits(x, e, n)' => Waits(x, e, n)
    BY <2>1, SameWaits
  <2> QED BY <2>1, <2>2, <2>3, StillAccounted
<1>6. ASSUME NEW d \in Domains, ComputeQuantum(d) PROVE Accounted'
  <2>1. /\ sent' = sent /\ oseq' = oseq /\ spread' = spread /\ mode' = mode
        /\ \A e \in Clients : HasRoute(e) => HasRoute(e)'
    BY <1>6 DEF ComputeQuantum, HasRoute
  <2>2. \A x \in Domains, e \in Clients, n \in 1..MaxSeq : Waits(x, e, n)' => Waits(x, e, n)
    BY <1>6, QuantumWaits
  <2> QED BY <2>1, <2>2, StillAccounted
<1>7. CASE UNCHANGED vars
  <2>1. /\ sent' = sent /\ oseq' = oseq /\ spread' = spread /\ mode' = mode
        /\ pkts' = pkts /\ reading' = reading /\ queues' = queues /\ route' = route
    BY <1>7 DEF vars
  <2>2. \A x \in Domains, e \in Clients, n \in 1..MaxSeq : Waits(x, e, n)' => Waits(x, e, n)
    BY <2>1, SameWaits
  <2> QED BY <2>1, <2>2, StillAccounted DEF HasRoute
<1> QED BY <1>1, <1>2, <1>3, <1>4, <1>5, <1>6, <1>7 DEF Next

(* A step that leaves the routes alone, and takes a packet out of a domain *)
(* only by sending or dropping it.                                         *)
LEMMA StillKept ==
  ASSUME TypeOK, Kept, route' = route, moved' = moved, oseq' = oseq,
         todo = {} => todo' = {}, dropped \subseteq dropped',
         \A c \in Clients, n \in 1..MaxSeq :
           /\ SomeSent(c, n) => SomeSent(c, n)'
           /\ \A d \in Domains :
                Waits(d, c, n) => Waits(d, c, n)' \/ <<d, c, n>> \in dropped' \/ SomeSent(c, n)'
  PROVE  Kept'
<1> SUFFICES ASSUME NEW c \in Clients \ moved
             PROVE  /\ ~HasRoute(c)' => todo' = {}
                    /\ \A n \in 1..oseq[c] : SomeSent(c, n)' \/
                         \A d \in EnqueueIn(c)' : Waits(d, c, n)' \/ <<d, c, n>> \in dropped'
  BY DEF Kept
<1>1. (HasRoute(c)' <=> HasRoute(c)) /\ EnqueueIn(c)' = EnqueueIn(c)
  BY DEF HasRoute, DomainOf, EnqueueIn
<1>2. ~HasRoute(c)' => todo' = {}
  BY <1>1 DEF Kept
<1>3. ASSUME NEW n \in 1..oseq[c], ~SomeSent(c, n)'
      PROVE  \A d \in EnqueueIn(c)' : Waits(d, c, n)' \/ <<d, c, n>> \in dropped'
  <2>1. n \in 1..MaxSeq
    BY ControllerAssumption DEF TypeOK
  <2>2. /\ ~SomeSent(c, n)
        /\ \A d \in Domains : Waits(d, c, n) => Waits(d, c, n)' \/ <<d, c, n>> \in dropped'
    BY <1>3, <2>1
  <2>3. \A d \in EnqueueIn(c) : Waits(d, c, n) \/ <<d, c, n>> \in dropped
    BY <2>2 DEF Kept
  <2>4. EnqueueIn(c) \subseteq Domains
    BY EnqueueInType
  <2> QED BY <1>1, <2>2, <2>3, <2>4
<1> QED BY <1>2, <1>3

LEMMA KeptStep ==
  TypeOK /\ NumbersOK /\ InOnePlace /\ RoutesOK /\ Kept /\ [Next]_vars => Kept'
<1> SUFFICES ASSUME TypeOK, NumbersOK, InOnePlace, RoutesOK, Kept, [Next]_vars
             PROVE  Kept'
  OBVIOUS
<1>1. ASSUME NEW c \in Clients, ReadTun(c) PROVE Kept'
  <2>1. /\ oseq'[c] = oseq[c] + 1 /\ oseq'[c] \in 0..MaxSeq
        /\ \A e \in Clients : oseq[e] \in 0..MaxSeq /\ (e # c => oseq'[e] = oseq[e])
        /\ sent' = sent /\ route' = route /\ moved' = moved /\ todo' = todo
        /\ dropped' = dropped
    BY <1>1, TypeStep DEF ReadTun, TypeOK, Next
  <2> SUFFICES ASSUME NEW e \in Clients \ moved
               PROVE  /\ ~HasRoute(e)' => todo' = {}
                      /\ \A n \in 1..oseq'[e] : SomeSent(e, n)' \/
                           \A d \in EnqueueIn(e)' : Waits(d, e, n)' \/ <<d, e, n>> \in dropped'
    BY <2>1 DEF Kept
  <2>2. (HasRoute(e)' <=> HasRoute(e)) /\ EnqueueIn(e)' = EnqueueIn(e)
    BY <2>1 DEF HasRoute, DomainOf, EnqueueIn
  <2>3. ~HasRoute(e)' => todo' = {}
    BY <2>1, <2>2 DEF Kept
  <2>4. EnqueueIn(e) \subseteq Domains
    BY EnqueueInType
  <2>5. ASSUME NEW n \in 1..oseq'[e]
        PROVE  SomeSent(e, n)' \/
                 \A d \in EnqueueIn(e)' : Waits(d, e, n)' \/ <<d, e, n>> \in dropped'
    <3>1. n \in 1..MaxSeq
      BY <2>1, ControllerAssumption
    <3>2. CASE e = c /\ n = oseq[c] + 1
      <4>1. \A d \in Domains : Waits(d, e, n)' <=> d \in EnqueueIn(c)
        BY <1>1, <3>1, <3>2, ReadTunWaits
      <4> QED BY <2>2, <2>4, <3>2, <4>1
    <3>3. CASE ~(e = c /\ n = oseq[c] + 1)
      <4>1. n \in 1..oseq[e]
        BY <2>1, <3>3
      <4>2. \A d \in Domains : Waits(d, e, n)' <=> Waits(d, e, n)
        BY <1>1, <3>1, <3>3, ReadTunWaits
      <4>3. SomeSent(e, n)' <=> SomeSent(e, n)
        BY <2>1 DEF SomeSent
      <4>4. SomeSent(e, n) \/ \A d \in EnqueueIn(e) : Waits(d, e, n) \/ <<d, e, n>> \in dropped
        BY <4>1 DEF Kept
      <4> QED BY <2>1, <2>2, <2>4, <4>2, <4>3, <4>4
    <3> QED BY <3>2, <3>3
  <2> QED BY <2>3, <2>5
<1>2. ASSUME NEW d \in Domains, NEW c \in Clients, Enqueue(d, c) PROVE Kept'
  <2>1. /\ route' = route /\ moved' = moved /\ oseq' = oseq /\ todo' = todo /\ sent' = sent
        /\ dropped \subseteq dropped'
    BY <1>2 DEF Enqueue
  <2>2. ASSUME NEW x \in Domains, NEW e \in Clients, NEW n \in 1..MaxSeq, Waits(x, e, n)
        PROVE  Waits(x, e, n)' \/ <<x, e, n>> \in dropped'
    <3>1. Waits(x, e, n)' \/ (x = d /\ e = c /\ n = oseq[c] /\ IsFull(queues[d][c]))
      BY <1>2, <2>2, EnqueueWaits
    <3> QED BY <1>2, <3>1 DEF Enqueue
  <2>3. \A e \in Clients, n \in 1..MaxSeq : SomeSent(e, n)' <=> SomeSent(e, n)
    BY <2>1 DEF SomeSent
  <2> QED BY <2>1, <2>2, <2>3, StillKept
<1>3. ASSUME NEW f \in BSs, NEW c \in Clients, Dequeue(f, c) PROVE Kept'
  <2>1. /\ route' = route /\ moved' = moved /\ oseq' = oseq /\ todo' = todo /\ sent' = sent
        /\ dropped' = dropped
    BY <1>3 DEF Dequeue
  <2>2. \A x \in Domains, e \in Clients, n \in 1..MaxSeq : Waits(x, e, n)' <=> Waits(x, e, n)
    BY <1>3, DequeueWaits
  <2>3. \A e \in Clients, n \in 1..MaxSeq : SomeSent(e, n)' <=> SomeSent(e, n)
    BY <2>1 DEF SomeSent
  <2> QED BY <2>1, <2>2, <2>3, StillKept
<1>4. ASSUME NEW f \in BSs, Send(f) PROVE Kept'
  <2> DEFINE p == Head(pkts[f])
  <2>1. /\ route' = route /\ moved' = moved /\ oseq' = oseq /\ todo' = todo
        /\ dropped' = dropped
        /\ sent' = [sent EXCEPT ![p.client][p.seq] =
                      [b \in BSs |-> @[b] + IF b \in SendTo(p.client) THEN 1 ELSE 0]]
    BY <1>4 DEF Send
  <2>2. p.client \in Clients /\ p.seq \in 1..MaxSeq
    BY <1>4, HeadInBatch DEF Send, Packet
  <2> SUFFICES ASSUME NEW e \in Clients, NEW n \in 1..MaxSeq
               PROVE  /\ SomeSent(e, n) => SomeSent(e, n)'
                      /\ \A x \in Domains : Waits(x, e, n) => Waits(x, e, n)' \/ SomeSent(e, n)'
    BY <2>1, StillKept
  <2> DEFINE isP == e = p.client /\ n = p.seq
  <2>3. \A x \in Domains : Waits(x, e, n)' <=> Waits(x, e, n) /\ ~(x = ConflictGraph[f] /\ isP)
    BY <1>4, SendWaits
  <2>4. CASE isP
    <3>1. p.client = e /\ p.seq = n
      BY <2>4
    <3> HIDE DEF p
    <3>2. PICK b \in BSs : b \in SendTo(e)
      BY DomainOfType DEF SendTo, HasRoute
    <3>3. sent'[e][n] = [x \in BSs |-> sent[e][n][x] + IF x \in SendTo(e) THEN 1 ELSE 0]
      BY <2>1, <3>1 DEF TypeOK
    <3>4. sent[e][n] \in [BSs -> Nat]
      BY DEF TypeOK
    <3>5. sent'[e][n][b] > 0
      BY <3>2, <3>3, <3>4
    <3> QED BY <3>5 DEF SomeSent
  <2>5. CASE ~isP
    <3>1. sent'[e][n] = sent[e][n]
      BY <2>1, <2>2, <2>5 DEF TypeOK
    <3>2. SomeSent(e, n)' <=> SomeSent(e, n)
      BY <3>1 DEF SomeSent
    <3> QED BY <2>3, <2>5, <3>2
  <2> QED BY <2>4, <2>5
<1>5. ASSUME UpdateRoutes PROVE Kept'
  <2>1. PICK r \in NewRoutes : route' = r /\ moved' = moved \cup Leaving(r)
    BY <1>5 DEF UpdateRoutes
  <2>2. /\ oseq' = oseq /\ sent' = sent /\ dropped' = dropped
        /\ pkts' = pkts /\ reading' = reading /\ queues' = queues
    BY <1>5 DEF UpdateRoutes
  <2> SUFFICES ASSUME NEW c \in Clients \ moved', NEW n \in 1..oseq[c]
               PROVE  SomeSent(c, n)' \/
                        \A d \in EnqueueIn(c)' : Waits(d, c, n)' \/ <<d, c, n>> \in dropped
    <3>1. \A c \in Clients \ moved' : HasRoute(c)'
      BY <2>1 DEF Leaving, HasRoute
    <3> QED BY <2>2, <3>1 DEF Kept
  <2>3. c \notin moved /\ HasRoute(c)' /\ (HasRoute(c) => DomainOf(c)' = DomainOf(c))
    BY <2>1 DEF Leaving, HasRoute, DomainOf
  <2>4. EnqueueIn(c)' = {DomainOf(c)'} /\ DomainOf(c)' \in Domains
    <3>1. r \in PartialRoutes
      BY DEF NewRoutes, PartialRoutes
    <3>2. r[c] \in BSs
      BY <2>1, <2>3, <3>1 DEF PartialRoutes, HasRoute
    <3> QED BY <2>1, <2>3, <3>2, ControllerAssumption DEF DomainOf, EnqueueIn
  <2>5. \A d \in Domains : Waits(d, c, n)' <=> Waits(d, c, n)
    BY <2>2, SameWaits
  <2>6. SomeSent(c, n)' <=> SomeSent(c, n)
    BY <2>2 DEF SomeSent
  <2>7. SomeSent(c, n) \/ \A d \in EnqueueIn(c) : Waits(d, c, n) \/ <<d, c, n>> \in dropped
    BY <2>3 DEF Kept
  <2>8. EnqueueIn(c)' \subseteq EnqueueIn(c)
    BY <2>3, <2>4 DEF EnqueueIn
  <2> QED BY <2>4, <2>5, <2>6, <2>7, <2>8
<1>6. ASSUME NEW d \in Domains, ComputeQuantum(d) PROVE Kept'
  <2>1. /\ d \in todo /\ route' = route /\ moved' = moved /\ oseq' = oseq /\ sent' = sent
        /\ dropped' = dropped
    BY <1>6 DEF ComputeQuantum
  <2> SUFFICES ASSUME NEW c \in Clients \ moved, NEW n \in 1..oseq[c]
               PROVE  SomeSent(c, n)' \/
                        \A x \in EnqueueIn(c)' : Waits(x, c, n)' \/ <<x, c, n>> \in dropped
    <3>1. \A c \in Clients \ moved : HasRoute(c)'
      BY <2>1 DEF Kept, HasRoute
    <3> QED BY <2>1, <3>1 DEF Kept
  <2>2. HasRoute(c) /\ EnqueueIn(c)' = EnqueueIn(c) /\ EnqueueIn(c) = {DomainOf(c)}
    BY <2>1 DEF Kept, HasRoute, DomainOf, EnqueueIn
  <2>3. n \in 1..MaxSeq
    BY ControllerAssumption DEF TypeOK
  <2>4. SomeSent(c, n)' <=> SomeSent(c, n)
    BY <2>1 DEF SomeSent
  <2>5. ASSUME NEW x \in EnqueueIn(c) PROVE Waits(x, c, n)' <=> Waits(x, c, n)
    <3>1. x \in Domains /\ ~(x = d /\ c \notin ServedBy(d))
      BY <2>2, EnqueueInType DEF ServedBy, HasRoute
    <3> QED BY <1>6, <2>3, <3>1, QuantumWaits
  <2>6. SomeSent(c, n) \/ \A x \in EnqueueIn(c) : Waits(x, c, n) \/ <<x, c, n>> \in dropped
    BY DEF Kept
  <2> QED BY <2>2, <2>4, <2>5, <2>6
<1>7. CASE UNCHANGED vars
  <2>1. /\ route' = route /\ moved' = moved /\ oseq' = oseq /\ todo' = todo /\ sent' = sent
        /\ pkts' = pkts /\ reading' = reading /\ queues' = queues /\ dropped' = dropped
    BY <1>7 DEF vars
  <2>2. \A x \in Domains, e \in Clients, n \in 1..MaxSeq : Waits(x, e, n)' <=> Waits(x, e, n)
    BY <2>1, SameWaits
  <2>3. \A e \in Clients, n \in 1..MaxSeq : SomeSent(e, n)' <=> SomeSent(e, n)
    BY <2>1 DEF SomeSent
  <2> QED BY <2>1, <2>2, <2>3, StillKept
<1> QED BY <1>1, <1>2, <1>3, <1>4, <1>5, <1>6, <1>7 DEF Next

(* What IsFull says, for a queue of different numbers of a set: the set    *)
(* has MaxSize elements.                                                   *)
LEMMA FullQueueCounts ==
  ASSUME NEW T, IsFiniteSet(T), NEW q \in Seq(T), IsInjective(q), IsFull(q)
  PROVE  Cardinality(T) \in Nat /\ Cardinality(T) >= MaxSize
<1>1. q \in [1..MaxSize -> T] /\ DOMAIN q = 1..MaxSize
  BY LenProperties DEF IsFull
<1>2. q \in Injection(1..MaxSize, T)
  BY <1>1 DEF IsInjective, Injection
<1>3. /\ Cardinality(1..MaxSize) <= Cardinality(T)
      /\ Cardinality(T) \in Nat
  BY <1>2, FS_Injection, FS_CardinalityType
<1>4. Cardinality(1..MaxSize) = MaxSize
  <2>1. 1 \in Int /\ MaxSize \in Int /\ MaxSize \in Nat
    BY ControllerAssumption
  <2>2. Cardinality(1..MaxSize) = IF 1 > MaxSize THEN 0 ELSE MaxSize - 1 + 1
    BY <2>1, FS_Interval
  <2> QED BY <2>1, <2>2
<1> QED BY <1>3, <1>4, ControllerAssumption

(* A step that drops nothing. *)
LEMMA StillDropped ==
  ASSUME TypeOK, DroppedOK, dropped' = dropped,
         \A c \in Clients : oseq'[c] \in Nat /\ oseq[c] <= oseq'[c],
         \A d \in Domains, c \in Clients, n \in 1..MaxSeq :
           n <= oseq[c] => (Waits(d, c, n)' => Waits(d, c, n))
  PROVE  DroppedOK'
<1> SUFFICES ASSUME NEW d \in Domains, NEW c \in Clients, NEW n \in 1..MaxSeq,
                    <<d, c, n>> \in dropped
             PROVE  n <= oseq'[c] /\ ~Waits(d, c, n)' /\ Overflowed(d, c, n)'
  BY DEF DroppedOK
<1>1. n <= oseq[c] /\ ~Waits(d, c, n) /\ Overflowed(d, c, n)
  BY DEF DroppedOK
<1>2. Overflowed(d, c, n)'
  BY <1>1 DEF Overflowed
<1>3. n <= oseq'[c]
  <2>1. oseq[c] \in Nat /\ oseq'[c] \in Nat /\ oseq[c] <= oseq'[c]
    BY DEF TypeOK
  <2> QED BY <1>1, <2>1
<1> QED BY <1>1, <1>2, <1>3

LEMMA DroppedStep ==
  TypeOK /\ NumbersOK /\ InOnePlace /\ DroppedOK /\ [Next]_vars => DroppedOK'
<1> SUFFICES ASSUME TypeOK, NumbersOK, InOnePlace, DroppedOK, [Next]_vars PROVE DroppedOK'
  OBVIOUS
<1>0. \A c \in Clients : oseq[c] \in Nat /\ oseq[c] <= oseq[c]
  BY DEF TypeOK
<1>1. ASSUME NEW c \in Clients, ReadTun(c) PROVE DroppedOK'
  <2>1. /\ dropped' = dropped /\ oseq'[c] = oseq[c] + 1
        /\ \A e \in Clients : e # c => oseq'[e] = oseq[e]
    BY <1>1 DEF ReadTun, TypeOK
  <2>2. \A e \in Clients : oseq'[e] \in Nat /\ oseq[e] <= oseq'[e]
    BY <1>0, <2>1
  <2>3. \A d \in Domains, e \in Clients, n \in 1..MaxSeq :
          n <= oseq[e] => (Waits(d, e, n)' => Waits(d, e, n))
    <3> SUFFICES ASSUME NEW d \in Domains, NEW e \in Clients, NEW n \in 1..MaxSeq,
                        n <= oseq[e]
                 PROVE  Waits(d, e, n)' => Waits(d, e, n)
      OBVIOUS
    <3>1. ~(e = c /\ n = oseq[c] + 1)
      BY <1>0
    <3> QED BY <1>1, <3>1, ReadTunWaits
  <2> QED BY <2>1, <2>2, <2>3, StillDropped
<1>2. ASSUME NEW d \in Domains, NEW c \in Clients, Enqueue(d, c), IsFull(queues[d][c])
      PROVE  DroppedOK'
  <2> DEFINE k == oseq[c]
             q == queues[d][c]
             earlier(n) == {m \in 1..n - 1 : <<d, c, m>> \notin dropped}
  <2>1. /\ <<d, c>> \in reading /\ oseq' = oseq
        /\ dropped' = dropped \cup {<<d, c, k>>}
        /\ \A x \in Domains, e \in Clients, n \in 1..MaxSeq :
             Waits(x, e, n)' <=> Waits(x, e, n) /\ ~(x = d /\ e = c /\ n = k)
    BY <1>2, EnqueueWaits DEF Enqueue
  <2>2. k \in 1..MaxSeq /\ k \in Nat
    <3>1. k > 0 /\ k \in 0..MaxSeq
      BY <2>1 DEF NumbersOK, TypeOK
    <3> QED BY <3>1, ControllerAssumption
  <2>3. IsFiniteSet(earlier(k)) /\ q \in Seq(earlier(k)) /\ IsInjective(q)
    <3>1. IsFiniteSet(1..k - 1) /\ earlier(k) \subseteq 1..k - 1
      BY <2>2, FS_Interval
    <3>2. q \in Seq(1..MaxSeq) /\ IsInjective(q) /\ DOMAIN q = 1..Len(q) /\ Len(q) \in Nat
      BY LenProperties DEF TypeOK, InOnePlace
    <3>3. ASSUME NEW i \in 1..Len(q) PROVE q[i] \in earlier(k)
      <4>1. q[i] \in 1..MaxSeq
        <5> HIDE DEF q
        <5>1. q \in [1..Len(q) -> 1..MaxSeq]
          BY <3>2, LenProperties
        <5> QED BY <5>1
      <4>2. InQueue(d, c, q[i])
        BY <3>2 DEF InQueue
      <4>3. q[i] <= k /\ <<d, c, q[i]>> \notin dropped
        BY <4>1, <4>2 DEF Waits, NumbersOK, DroppedOK
      <4>4. q[i] # k
        <5>1. InReading(d, c, k)
          BY <2>1 DEF InReading
        <5> QED BY <2>2, <4>2, <5>1 DEF InOnePlace
      <4>5. q[i] \in 1..k - 1
        BY <2>2, <4>1, <4>3, <4>4
      <4> QED BY <4>3, <4>5
    <3>4. q \in Seq(earlier(k))
      <4> HIDE DEF q, earlier
      <4>1. q \in [1..Len(q) -> earlier(k)]
        BY <3>2, <3>3
      <4> QED BY <3>2, <4>1, SeqDef
    <3> QED BY <3>1, <3>2, <3>4, FS_Subset
  <2>4. Cardinality(earlier(k)) >= MaxSize
    BY <1>2, <2>3, FullQueueCounts
  <2> SUFFICES ASSUME NEW x \in Domains, NEW e \in Clients, NEW n \in 1..MaxSeq,
                      <<x, e, n>> \in dropped'
               PROVE  n <= oseq[e] /\ ~Waits(x, e, n)' /\ Overflowed(x, e, n)'
    BY <2>1 DEF DroppedOK
  <2>5. CASE x = d /\ e = c /\ n = k
    <3>1. {m \in 1..n - 1 : <<x, e, m>> \notin dropped'} = earlier(k)
      BY <2>1, <2>2, <2>5
    <3>2. Overflowed(x, e, n)'
      BY <2>4, <2>5, <3>1 DEF Overflowed
    <3> QED BY <2>1, <2>2, <2>5, <3>2
  <2>6. CASE ~(x = d /\ e = c /\ n = k)
    <3>1. <<x, e, n>> \in dropped
      BY <2>1, <2>6
    <3>2. n <= oseq[e] /\ ~Waits(x, e, n) /\ Overflowed(x, e, n)
      BY <3>1 DEF DroppedOK
    <3>3. {m \in 1..n - 1 : <<x, e, m>> \notin dropped'}
            = {m \in 1..n - 1 : <<x, e, m>> \notin dropped}
      <4>1. \A m \in 1..n - 1 : ~(x = d /\ e = c /\ m = k)
        BY <2>2, <3>2
      <4> QED BY <2>1, <4>1
    <3>4. Overflowed(x, e, n)'
      BY <2>1, <3>2, <3>3 DEF Overflowed
    <3> QED BY <2>1, <3>2, <3>4
  <2> QED BY <2>5, <2>6
<1>3. ASSUME NEW d \in Domains, NEW c \in Clients, Enqueue(d, c), ~IsFull(queues[d][c])
      PROVE  DroppedOK'
  <2>1. dropped' = dropped /\ oseq' = oseq
    BY <1>3 DEF Enqueue
  <2>2. \A x \in Domains, e \in Clients, n \in 1..MaxSeq : Waits(x, e, n)' => Waits(x, e, n)
    BY <1>3, EnqueueWaits
  <2> QED BY <1>0, <2>1, <2>2, StillDropped
<1>4. ASSUME NEW f \in BSs, NEW c \in Clients, Dequeue(f, c) PROVE DroppedOK'
  <2>1. dropped' = dropped /\ oseq' = oseq
    BY <1>4 DEF Dequeue
  <2>2. \A x \in Domains, e \in Clients, n \in 1..MaxSeq : Waits(x, e, n)' => Waits(x, e, n)
    BY <1>4, DequeueWaits
  <2> QED BY <1>0, <2>1, <2>2, StillDropped
<1>5. ASSUME NEW f \in BSs, Send(f) PROVE DroppedOK'
  <2>1. dropped' = dropped /\ oseq' = oseq
    BY <1>5 DEF Send
  <2>2. \A x \in Domains, e \in Clients, n \in 1..MaxSeq : Waits(x, e, n)' => Waits(x, e, n)
    BY <1>5, SendWaits
  <2> QED BY <1>0, <2>1, <2>2, StillDropped
<1>6. ASSUME NEW d \in Domains, ComputeQuantum(d) PROVE DroppedOK'
  <2>1. dropped' = dropped /\ oseq' = oseq
    BY <1>6 DEF ComputeQuantum
  <2>2. \A x \in Domains, e \in Clients, n \in 1..MaxSeq : Waits(x, e, n)' => Waits(x, e, n)
    BY <1>6, QuantumWaits
  <2> QED BY <1>0, <2>1, <2>2, StillDropped
<1>7. ASSUME UpdateRoutes \/ UNCHANGED vars PROVE DroppedOK'
  <2>1. /\ dropped' = dropped /\ oseq' = oseq
        /\ pkts' = pkts /\ reading' = reading /\ queues' = queues
    BY <1>7 DEF UpdateRoutes, vars
  <2>2. \A x \in Domains, e \in Clients, n \in 1..MaxSeq : Waits(x, e, n)' => Waits(x, e, n)
    BY <2>1, SameWaits
  <2> QED BY <1>0, <2>1, <2>2, StillDropped
<1> QED BY <1>1, <1>2, <1>3, <1>4, <1>5, <1>6, <1>7 DEF Next

LEMMA ServedStep ==
  TypeOK /\ RoutesOK /\ ServedOK /\ [Next]_vars => ServedOK'
<1> SUFFICES ASSUME TypeOK, RoutesOK, ServedOK, [Next]_vars PROVE ServedOK'
  OBVIOUS
<1>1. ASSUME UpdateRoutes PROVE ServedOK'
  <2>1. PICK r \in NewRoutes :
          /\ route' = r /\ mode' = mode /\ served' = served
          /\ todo' = {ConflictGraph[r[c]] : c \in DOMAIN r}
    BY <1>1 DEF UpdateRoutes
  <2>2. \A d \in Domains \ todo' : ServedBy(d)' = {}
    BY <2>1 DEF ServedBy, DomainOf
  <2>3. mode # "Optimizer" /\ DOMAIN r = {} => Clients = {}
    BY DEF NewRoutes
  <2>4. Clients = {} => \A d \in Domains : served[d] = Clients
    BY DEF TypeOK
  <2> QED BY <2>1, <2>2, <2>3, <2>4 DEF ServedOK
<1>2. ASSUME NEW x \in Domains, ComputeQuantum(x) PROVE ServedOK'
  <2>1. /\ mode' = mode /\ route' = route /\ todo' = todo \ {x} /\ x \in todo
        /\ served'[x] = ServedBy(x) /\ \A d \in Domains \ {x} : served'[d] = served[d]
    BY <1>2 DEF ComputeQuantum, TypeOK
  <2>2. \A d : ServedBy(d)' = ServedBy(d)
    BY <2>1 DEF ServedBy, DomainOf
  <2>3. DOMAIN route # {}
    BY <2>1 DEF RoutesOK
  <2> QED BY <2>1, <2>2, <2>3 DEF ServedOK
<1>3. ASSUME mode' = mode, route' = route, todo' = todo, served' = served PROVE ServedOK'
  BY <1>3 DEF ServedOK, ServedBy, DomainOf
<1> QED BY <1>1, <1>2, <1>3 DEF Next, ReadTun, Enqueue, Dequeue, Send, vars

LEMMA ElsewhereType ==
  ASSUME TypeOK PROVE \A d : Elsewhere(d) \subseteq Clients /\ Settled \subseteq Domains
  BY DomainOfType DEF Elsewhere, Settled

(* A step that tells no scheduler, and adds to no queue that would be      *)
(* forgotten.                                                              *)
LEMMA StillStale ==
  ASSUME StaleOK, mode' = mode, route' = route, served' = served, todo' = todo,
         \A d \in Settled : \A c \in Elsewhere(d) :
           queues'[d][c] = queues[d][c] /\ (<<d, c>> \in reading' => <<d, c>> \in reading)
  PROVE  StaleOK'
<1>1. Settled' = Settled /\ \A d : Elsewhere(d)' = Elsewhere(d)
  BY DEF Settled, Elsewhere, ServedBy, DomainOf
<1> SUFFICES ASSUME NEW d \in Settled
             PROVE  /\ \A c, c2 \in Elsewhere(d) :
                         \A i \in DOMAIN queues'[d][c], j \in DOMAIN queues'[d][c2] :
                           c = c2 /\ i = j
                    /\ \A c \in Elsewhere(d) : <<d, c>> \in reading' =>
                         \A c2 \in Elsewhere(d) : queues'[d][c2] = <<>>
  BY <1>1 DEF StaleOK
<1>3. \A c \in Elsewhere(d) :
        queues'[d][c] = queues[d][c] /\ (<<d, c>> \in reading' => <<d, c>> \in reading)
  OBVIOUS
<1>4. /\ \A c, c2 \in Elsewhere(d) :
           \A i \in DOMAIN queues[d][c], j \in DOMAIN queues[d][c2] : c = c2 /\ i = j
      /\ \A c \in Elsewhere(d) : <<d, c>> \in reading =>
           \A c2 \in Elsewhere(d) : queues[d][c2] = <<>>
  BY DEF StaleOK
<1>5. ASSUME NEW c \in Elsewhere(d), NEW c2 \in Elsewhere(d),
             NEW i \in DOMAIN queues'[d][c], NEW j \in DOMAIN queues'[d][c2]
      PROVE  c = c2 /\ i = j
  <2>1. i \in DOMAIN queues[d][c] /\ j \in DOMAIN queues[d][c2]
    BY <1>3
  <2> QED BY <1>4, <2>1
<1> QED BY <1>3, <1>4, <1>5

(* ReadTun finds no route to a settled domain for a client elsewhere. *)
LEMMA ElsewhereNotRead ==
  ASSUME TypeOK, RoutesOK, ServedOK, NEW d \in Settled, NEW c \in Elsewhere(d)
  PROVE  d \notin EnqueueIn(c)
<1>0. d \in Domains \ todo /\ c \in Clients /\ c \notin served[d]
  BY ElsewhereType DEF Settled, Elsewhere
<1>1. CASE HasRoute(c)
  <2>1. ASSUME d = DomainOf(c) PROVE FALSE
    <3>1. c \in ServedBy(d)
      BY <1>1, <2>1 DEF ServedBy, HasRoute
    <3> QED BY <1>0, <3>1 DEF ServedOK
  <2> QED BY <1>1, <2>1 DEF EnqueueIn
<1>2. CASE ~HasRoute(c)
  <2>1. mode # "Optimizer"
    BY <1>2 DEF Elsewhere, HasRoute
  <2>2. DOMAIN route = {}
    BY <1>0, <1>2, <2>1 DEF RoutesOK, HasRoute
  <2> QED BY <1>0, <2>1, <2>2 DEF ServedOK
<1> QED BY <1>1, <1>2

LEMMA StaleStep ==
  TypeOK /\ NumbersOK /\ RoutesOK /\ ServedOK /\ StaleOK /\ [Next]_vars => StaleOK'
<1> SUFFICES ASSUME TypeOK, NumbersOK, RoutesOK, ServedOK, StaleOK, [Next]_vars PROVE StaleOK'
  OBVIOUS
<1>1. ASSUME NEW c \in Clients, ReadTun(c) PROVE StaleOK'
  <2>1. /\ mode' = mode /\ route' = route /\ served' = served /\ todo' = todo
        /\ queues' = queues /\ reading' = EnqueueIn(c) \X {c}
    BY <1>1 DEF ReadTun
  <2>2. ASSUME NEW d \in Settled, NEW e \in Elsewhere(d) PROVE <<d, e>> \notin reading'
    BY <2>1, ElsewhereNotRead
  <2> QED BY <2>1, <2>2, StillStale
<1>2. ASSUME NEW x \in Domains, NEW c \in Clients, Enqueue(x, c) PROVE StaleOK'
  <2>1. /\ mode' = mode /\ route' = route /\ served' = served /\ todo' = todo
        /\ <<x, c>> \in reading /\ reading' = reading \ {<<x, c>>}
        /\ \/ queues' = queues
           \/ queues' = [queues EXCEPT ![x][c] = Append(queues[x][c], oseq[c])]
    BY <1>2 DEF Enqueue
  <2>2. \A d \in Domains, e \in Clients : d # x \/ e # c => queues'[d][e] = queues[d][e]
    BY <2>1 DEF TypeOK
  <2>3. Settled \subseteq Domains /\ \A d : Elsewhere(d) \subseteq Clients
    BY ElsewhereType
  <2>4. CASE x \in Settled /\ c \in Elsewhere(x)
    <3>1. Settled' = Settled /\ \A d : Elsewhere(d)' = Elsewhere(d)
      BY <2>1 DEF Settled, Elsewhere, ServedBy, DomainOf
    <3> SUFFICES ASSUME NEW d \in Settled
                 PROVE  /\ \A e, e2 \in Elsewhere(d) :
                             \A i \in DOMAIN queues'[d][e], j \in DOMAIN queues'[d][e2] :
                               e = e2 /\ i = j
                        /\ \A e \in Elsewhere(d) : <<d, e>> \in reading' =>
                             \A e2 \in Elsewhere(d) : queues'[d][e2] = <<>>
      BY <3>1 DEF StaleOK
    <3>2. CASE d = x
      <4>1. \A e \in Elsewhere(x) : queues[x][e] = <<>>
        BY <2>1, <2>4 DEF StaleOK
      <4>2. \A e \in Elsewhere(x) : e # c => DOMAIN queues'[x][e] = {}
        BY <2>2, <2>3, <2>4, <4>1
      <4>3. DOMAIN queues'[x][c] \subseteq {1}
        <5>1. queues'[x][c] = <<>> \/ queues'[x][c] = Append(<<>>, oseq[c])
          BY <2>1, <2>4, <4>1 DEF TypeOK
        <5>2. Len(Append(<<>>, oseq[c])) = 1
          OBVIOUS
        <5> QED BY <5>1, <5>2
      <4>4. \A e \in Elsewhere(x) : <<x, e>> \notin reading'
        BY <2>1 DEF NumbersOK
      <4> QED BY <3>2, <4>2, <4>3, <4>4
    <3>3. CASE d # x
      <4>1. \A e \in Elsewhere(d) : queues'[d][e] = queues[d][e]
        BY <2>2, <2>3, <3>3
      <4>2. reading' \subseteq reading
        BY <2>1
      <4> QED BY <4>1, <4>2 DEF StaleOK
    <3> QED BY <3>2, <3>3
  <2>5. CASE ~(x \in Settled /\ c \in Elsewhere(x))
    <3>1. \A d \in Settled : \A e \in Elsewhere(d) :
            queues'[d][e] = queues[d][e] /\ (<<d, e>> \in reading' => <<d, e>> \in reading)
      BY <2>1, <2>2, <2>3, <2>5
    <3> QED BY <2>1, <3>1, StillStale
  <2> QED BY <2>4, <2>5
<1>3. ASSUME NEW f \in BSs, NEW c \in Clients, Dequeue(f, c) PROVE StaleOK'
  <2> DEFINE d == ConflictGraph[f]
  <2>1. /\ mode' = mode /\ route' = route /\ served' = served /\ todo' = todo
        /\ reading' = reading /\ c \in served[d]
        /\ \A x \in Domains, e \in Clients : ~(x = d /\ e = c) => queues'[x][e] = queues[x][e]
    BY <1>3 DEF Dequeue, TypeOK
  <2> HIDE DEF d
  <2>2. ASSUME NEW x \in Settled, NEW e \in Elsewhere(x) PROVE queues'[x][e] = queues[x][e]
    <3>1. x \in Domains /\ e \in Clients /\ ~(x = d /\ e = c)
      BY <2>1, ElsewhereType DEF Elsewhere
    <3> QED BY <2>1, <3>1
  <2> QED BY <2>1, <2>2, StillStale
<1>4. ASSUME NEW f \in BSs, Send(f) PROVE StaleOK'
  BY <1>4, StillStale DEF Send
<1>5. ASSUME UpdateRoutes PROVE StaleOK'
  <2>1. PICK r \in NewRoutes :
          /\ todo = {} /\ mode' = mode /\ served' = served
          /\ reading' = reading /\ queues' = queues
          /\ route' = r /\ todo' = {ConflictGraph[r[c]] : c \in DOMAIN r}
    BY <1>5 DEF UpdateRoutes
  <2>2. \A d \in Domains \ todo' : ServedBy(d)' = {}
    BY <2>1 DEF ServedBy, DomainOf
  <2>3. CASE mode = "Optimizer"
    <3>1. Settled' = {}
      BY <2>1, <2>2, <2>3 DEF Settled
    <3> QED BY <3>1 DEF StaleOK
  <2>4. CASE mode # "Optimizer"
    <3>1. Settled' \subseteq Settled /\ \A d : Elsewhere(d)' = Elsewhere(d)
      BY <2>1, <2>4 DEF Settled, Elsewhere
    <3> QED BY <2>1, <3>1 DEF StaleOK
  <2> QED BY <2>3, <2>4
<1>6. ASSUME NEW x \in Domains, ComputeQuantum(x) PROVE StaleOK'
  <2>1. /\ mode' = mode /\ route' = route /\ todo' = todo \ {x} /\ reading' = reading
        /\ served' = [served EXCEPT ![x] = ServedBy(x)]
        /\ queues' = [queues EXCEPT ![x] = ClearOthers(@, x)]
    BY <1>6 DEF ComputeQuantum
  <2>2. \A d : ServedBy(d)' = ServedBy(d)
    BY <2>1 DEF ServedBy, DomainOf
  <2> SUFFICES ASSUME NEW d \in Settled'
               PROVE  /\ \A e, e2 \in Elsewhere(d)' :
                           \A i \in DOMAIN queues'[d][e], j \in DOMAIN queues'[d][e2] :
                             e = e2 /\ i = j
                      /\ \A e \in Elsewhere(d)' : <<d, e>> \in reading' =>
                           \A e2 \in Elsewhere(d)' : queues'[d][e2] = <<>>
    BY DEF StaleOK
  <2>3. CASE d = x
    <3>1. served'[x] = ServedBy(x) /\ queues'[x] = ClearOthers(queues[x], x)
      BY <2>1 DEF TypeOK
    <3>2. \A e \in Elsewhere(x)' : e \in Clients /\ e \notin ServedBy(x)
      BY <2>1, <3>1, DomainOfType DEF Elsewhere
    <3>3. \A e \in Elsewhere(x)' : queues'[x][e] = <<>>
      BY <3>1, <3>2 DEF ClearOthers
    <3>4. \A e \in Elsewhere(x)' : DOMAIN queues'[x][e] = {}
      BY <3>3
    <3> QED BY <2>3, <3>3, <3>4
  <2>4. CASE d # x
    <3>1. d \in Settled
      BY <2>1, <2>2, <2>4 DEF Settled
    <3>2. d \in Domains
      BY <3>1, ElsewhereType
    <3>3. served'[d] = served[d] /\ queues'[d] = queues[d]
      BY <2>1, <2>4, <3>2 DEF TypeOK
    <3>4. Elsewhere(d)' = Elsewhere(d)
      BY <2>1, <3>3 DEF Elsewhere
    <3> QED BY <2>1, <3>1, <3>3, <3>4 DEF StaleOK
  <2> QED BY <2>3, <2>4
<1>7. CASE UNCHANGED vars
  BY <1>7, StillStale DEF vars
<1> QED BY <1>1, <1>2, <1>3, <1>4, <1>5, <1>6, <1>7 DEF Next

-----------------------------------------------------------------------------
(* Theorems *)

(* The parts hold together from the start, whatever the threads of the     *)
(* controller do next: wspace_controller.cc, ReadTun, ForwardToBS and      *)
(* ComputeRoutes.                                                          *)
THEOREM Invariance == Spec => []IInv
<1>1. IInv /\ [Next]_vars => IInv'
  BY TypeStep, NumbersStep, InOnePlaceStep, RoutesStep, AccountedStep, DroppedStep, KeptStep,
     ServedStep, StaleStep
  DEF IInv
<1> QED BY <1>1, PartsInit, PTL DEF Spec

(* A packet read when its client had a route is sent to no base station    *)
(* twice, and one read without a route at most once for each scheduler, in *)
(* whatever order ReadTun, ForwardToBS and ComputeRoutes come.             *)
THEOREM SentOnceHolds == Spec => []SentOnce
<1>1. IInv => SentOnce
  <2> SUFFICES ASSUME IInv, NEW c \in Clients, NEW n \in 1..oseq[c]
               PROVE  IF <<c, n>> \in spread
                      THEN \A b \in BSs : sent[c][n][b] <= Cardinality(Domains)
                      ELSE /\ \A b \in BSs : sent[c][n][b] <= 1
                           /\ mode = "MaxThroughput" =>
                                \A b, b2 \in BSs :
                                  sent[c][n][b] > 0 /\ sent[c][n][b2] > 0 => b = b2
    BY DEF SentOnce
  <2>1. n \in 1..MaxSeq /\ n <= oseq[c]
    BY ControllerAssumption DEF IInv, TypeOK
  <2>2. IF <<c, n>> \in spread THEN SpreadOK(c, n) ELSE SingleOK(c, n)
    BY <2>1 DEF IInv, Accounted
  <2>3. ASSUME SpreadOK(c, n), NEW b \in BSs PROVE sent[c][n][b] <= Cardinality(Domains)
    <3>1. Left(c, n) \subseteq Domains
      BY DEF Left
    <3>2. /\ Cardinality(Left(c, n)) <= Cardinality(Domains)
          /\ Cardinality(Left(c, n)) \in Nat /\ Cardinality(Domains) \in Nat
      BY <3>1, LeftFinite, ControllerAssumption, FS_Subset, FS_CardinalityType
    <3>3. sent[c][n][b] <= Cardinality(Left(c, n))
      BY <2>3 DEF SpreadOK
    <3>4. sent[c][n] \in [BSs -> Nat]
      BY <2>1 DEF IInv, TypeOK
    <3> QED BY <3>2, <3>3, <3>4
  <2> QED BY <2>2, <2>3 DEF SingleOK
<1> QED BY <1>1, Invariance, PTL

(* A packet of a client that has left no domain and not lost its route     *)
(* waits in the domain of the client, has been sent, or found the queue    *)
(* full: no step of ComputeRoutes or ComputeQuantum forgets it.            *)
THEOREM NotLostHolds == Spec => []NotLost
<1>1. IInv => NotLost
  <2> SUFFICES ASSUME IInv, NEW c \in DOMAIN route \ moved, NEW n \in 1..oseq[c]
               PROVE  \/ Waits(DomainOf(c), c, n) \/ Overflowed(DomainOf(c), c, n)
                      \/ \E b \in BSs : sent[c][n][b] > 0
    BY DEF NotLost
  <2>1. c \in Clients \ moved /\ DomainOf(c) \in Domains
    BY DomainOfType DEF IInv
  <2>2. DomainOf(c) \in EnqueueIn(c)
    BY DEF EnqueueIn, HasRoute
  <2>3. n \in 1..MaxSeq
    BY <2>1, ControllerAssumption DEF IInv, TypeOK
  <2>4. <<DomainOf(c), c, n>> \in dropped => Overflowed(DomainOf(c), c, n)
    BY <2>1, <2>3 DEF IInv, DroppedOK
  <2> QED BY <2>1, <2>2, <2>4 DEF IInv, Kept, SomeSent
<1> QED BY <1>1, Invariance, PTL

(* When ComputeRoutes has told the schedulers that have clients, the       *)
(* queues of each, told or not, hold at most one packet of the clients it  *)
(* does not serve.                                                         *)
THEOREM AtMostOneStaleHolds == Spec => []AtMostOneStale
<1>1. IInv => AtMostOneStale
  BY DEF IInv, StaleOK, AtMostOneStale, Settled
<1> QED BY <1>1, Invariance, PTL

=============================================================================
