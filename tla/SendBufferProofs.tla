--------------------------- MODULE SendBufferProofs ---------------------------
(***************************************************************************)
(* Proofs about SendBuffer: the pointers of the ring, the packets in it    *)
(* and the order they are sent in, for any length of the ring, any range   *)
(* of the pointers and any number of packets.                              *)
(***************************************************************************)
EXTENDS SendBuffer, SequenceTheorems, FiniteSetTheorems, TLAPS

-----------------------------------------------------------------------------
(* The inductive invariant *)

(* Reader has moved the tail and not put the packet in yet. *)
Storing == IF pc[Reader] = "store" THEN 1 ELSE 0

(* How many packets the tail and the head have passed, not wrapped. *)
Passed == put + Storing
Gone == Passed - Ahead(tail)

(* The slot k places behind the head, and the packet that belongs there. *)
Place(k) == SlotOf((head + k) % PtSpace)
PktAt(k) == Gone + k + 1

TypesOK ==
  /\ head \in 0..PtSpace - 1 /\ curr \in 0..PtSpace - 1 /\ tail \in 0..PtSpace - 1
  /\ slots \in [Slots -> [pkt : 0..MaxPkts, seq : 0..PtSpace - 1,
                          status : Statuses, retrans : 0..NumRetrans]]
  /\ qlock \in Threads \cup {NoThread}
  /\ elock \in [Slots -> Threads \cup {NoThread}]
  /\ pc \in [Threads -> {"idle", "acquire", "sleep", "element", "store", "take",
                         "update", "free"}]
  /\ index \in [Threads -> Slots]
  /\ seq \in 0..PtSpace - 1
  /\ batch \in Seq(0..PtSpace - 1) /\ Len(batch) <= MaxBatch
  /\ put \in 0..MaxPkts
  /\ times \in [Pkts -> Nat]
  /\ aborted \in BOOLEAN

(* Where each thread can be, and what it holds there. *)
PlacesOK ==
  /\ pc[Reader] \in {"idle", "acquire", "sleep", "element", "store"}
  /\ pc[Sender] \in {"idle", "acquire", "sleep", "element", "take", "update"}
  /\ pc[Handler] \in {"idle", "acquire", "element", "free"}
  /\ \A t \in Threads : pc[t] = "element" => qlock = t
  /\ pc[Sender] = "update" => qlock = Sender /\ batch # <<>>
  /\ pc[Sender] \in {"acquire", "sleep", "element", "take"} => Len(batch) < MaxBatch
  /\ pc[Reader] # "idle" => put < MaxPkts
  /\ \A t \in Threads : pc[t] \in {"store", "take", "free"} => elock[index[t]] = t

PointersOK ==
  /\ PointersInOrder
  /\ Ahead(tail) <= Passed
  /\ pc[Reader] = "element" => Ahead(tail) < BufSize
  /\ pc[Reader] = "store" => /\ Ahead(curr) < Ahead(tail)
                             /\ index[Reader] = Place(Ahead(tail) - 1)
  /\ pc[Sender] = "element" => Ahead(curr) < Ahead(tail)
  /\ pc[Handler] \in {"acquire", "element"} => 0 < Ahead(curr)
  /\ ReaderSleepsWhileFull

(* The slots from the head to the tail hold the last packets in order, and *)
(* another one holds none, but the one Handler is about to free.           *)
RingOK ==
  /\ \A k \in 0..Ahead(tail) - 1 :
       PktAt(k) <= put => /\ slots[Place(k)].status # "Empty"
                          /\ slots[Place(k)].pkt = PktAt(k)
  /\ \A i \in Slots : slots[i].status # "Empty" =>
       /\ slots[i].pkt \in 1..put
       /\ \/ \E k \in 0..Ahead(tail) - 1 : i = Place(k) /\ slots[i].pkt = PktAt(k)
          \/ pc[Handler] = "free" /\ i = index[Handler]
  /\ pc[Handler] \in {"acquire", "element"} => slots[Place(0)].status = "Outbound"
  /\ pc[Handler] = "free" =>
       slots[index[Handler]].status = "Outbound" /\ slots[index[Handler]].pkt = Gone

(* How often the packets were sent and may still be sent. *)
CountsOK ==
  /\ \A i \in Slots : slots[i].status # "Empty" =>
       /\ slots[i].status = "New" <=> times[slots[i].pkt] = 0
       /\ times[slots[i].pkt] + slots[i].retrans <= 1 + NumRetrans
       /\ slots[i].status = "Retrans" => slots[i].retrans > 0
  /\ \A p \in Pkts : times[p] <= 1 + NumRetrans /\ (p > put => times[p] = 0)

(* Every packet curr has passed was sent, or Sender is about to. *)
PrefixOK ==
  /\ \A p \in Pkts : times[p] > 0 => \A q \in 1..p - 1 : times[q] > 0
  /\ pc[Sender] = "take" =>
       /\ slots[index[Sender]].status # "Empty"
       /\ \A q \in 1..slots[index[Sender]].pkt - 1 : times[q] > 0
  /\ \A q \in Pkts : q <= Gone + Ahead(curr) =>
       times[q] > 0 \/ (pc[Sender] = "take" /\ slots[index[Sender]].pkt = q)

(* As long as no number has wrapped, a packet's number is its place in the *)
(* order, its slot is the one Seq2Ind gives, and a packet of the batch is  *)
(* not touched.                                                            *)
NumberedOK ==
  put < PtSpace =>
    /\ tail = IF Passed = PtSpace THEN 0 ELSE Passed
    /\ pc[Reader] # "idle" => seq = IF put + 1 = PtSpace THEN 0 ELSE put + 1
    /\ \A i \in Slots : slots[i].status # "Empty" =>
         slots[i].seq = slots[i].pkt /\ i = (slots[i].pkt - 1) % BufSize
    /\ \A k \in 1..Len(batch) : LET i == Seq2Ind(batch[k]) IN
         slots[i].status = "Outbound" /\ slots[i].seq = batch[k]
    /\ \A k \in 1..Len(batch) :
         /\ pc[Handler] \in {"acquire", "element"} => batch[k] # slots[Place(0)].seq
         /\ pc[Handler] = "free" => batch[k] # slots[index[Handler]].seq
    /\ ~aborted

IInv ==
  /\ TypesOK /\ PlacesOK /\ PointersOK /\ RingOK /\ CountsOK /\ PrefixOK /\ NumberedOK

-----------------------------------------------------------------------------
(* Pointers that wrap *)

LEMMA ThreadsDistinct ==
  /\ Reader # Sender /\ Reader # Handler /\ Sender # Handler
  /\ NoThread # Reader /\ NoThread # Sender /\ NoThread # Handler
<1>1. \A a, b : IsFiniteSet({a, b}) /\ Cardinality({a, b}) <= 2
  <2> SUFFICES ASSUME NEW a, NEW b PROVE IsFiniteSet({a, b}) /\ Cardinality({a, b}) <= 2
    OBVIOUS
  <2>1. IsFiniteSet({a}) /\ Cardinality({a}) = 1
    BY FS_Singleton
  <2>2. IsFiniteSet({a} \cup {b})
        /\ (Cardinality({a} \cup {b}) = 1 \/ Cardinality({a} \cup {b}) = 2)
    BY <2>1, FS_AddElement
  <2>3. {a, b} = {a} \cup {b}
    OBVIOUS
  <2> QED BY <2>2, <2>3
<1>2. Cardinality(Threads) = 3 /\ NoThread \notin Threads
  BY SendBufferAssumption
<1>3. ~(Cardinality(Threads) <= 2)
  BY <1>2
<1>4. Reader # Sender
  <2>1. Reader = Sender => Threads = {Sender, Handler}
    BY DEF Threads
  <2> QED BY <1>1, <1>3, <2>1
<1>5. Reader # Handler
  <2>1. Reader = Handler => Threads = {Sender, Handler}
    BY DEF Threads
  <2> QED BY <1>1, <1>3, <2>1
<1>6. Sender # Handler
  <2>1. Sender = Handler => Threads = {Reader, Handler}
    BY DEF Threads
  <2> QED BY <1>1, <1>3, <2>1
<1> QED BY <1>2, <1>4, <1>5, <1>6 DEF Threads

(* A remainder, for a number that is at most once out of range. *)
LEMMA ModOnce ==
  ASSUME NEW m \in Nat, m > 0, NEW a \in Int, -m <= a, a < 2 * m
  PROVE  a % m = IF a < 0 THEN a + m ELSE IF a < m THEN a ELSE a - m
  BY SMT

LEMMA ModRange ==
  ASSUME NEW m \in Nat, m > 0, NEW a \in Int
  PROVE  a % m \in 0..m - 1
  BY SMT

(* Numbers less than m apart have different remainders. *)
LEMMA ModDistinct ==
  ASSUME NEW m \in Nat, m > 0, NEW a \in Nat, NEW b \in Nat, a < b, b - a < m
  PROVE  a % m # b % m
<1> DEFINE qa == a \div m
           qb == b \div m
<1>1. qa \in Int /\ qb \in Int /\ a = m * qa + (a % m) /\ b = m * qb + (b % m)
  BY SMT
<1>2. a % m \in Int /\ b % m \in Int
  BY ModRange
<1> HIDE DEF qa, qb
<1> SUFFICES ASSUME a % m = b % m PROVE FALSE
  OBVIOUS
<1>3. b - a = m * (qb - qa)
  BY <1>1, <1>2
<1>4. CASE qb - qa >= 1
  BY <1>1, <1>3, <1>4
<1>5. CASE qb - qa <= 0
  BY <1>1, <1>3, <1>5
<1> QED BY <1>1, <1>4, <1>5


Pointer == 0..PtSpace - 1

LEMMA Sizes == /\ BufSize \in Nat /\ BufSize > 0 /\ PtSpace \in Nat /\ PtSpace > 2 * BufSize
               /\ NumRetrans \in Nat /\ MaxPkts \in Nat /\ MaxBatch \in Nat /\ MaxBatch > 0
               /\ PtSpace > BufSize + 1
  BY SendBufferAssumption

LEMMA DistanceOf ==
  ASSUME NEW h \in Pointer, NEW pt \in Pointer
  PROVE  /\ (pt - h) % PtSpace = IF h <= pt THEN pt - h ELSE pt - h + PtSpace
         /\ (pt - h) % PtSpace \in Pointer
<1>1. pt - h \in Int /\ -PtSpace <= pt - h /\ pt - h < 2 * PtSpace /\ pt - h < PtSpace
  BY Sizes DEF Pointer
<1>2. (pt - h) % PtSpace = IF pt - h < 0 THEN pt - h + PtSpace
                           ELSE IF pt - h < PtSpace THEN pt - h ELSE pt - h - PtSpace
  BY <1>1, Sizes, ModOnce
<1> QED BY <1>1, <1>2, Sizes DEF Pointer

LEMMA PointerAt ==
  ASSUME NEW h \in Pointer, NEW k \in Pointer
  PROVE  /\ (h + k) % PtSpace = IF h + k < PtSpace THEN h + k ELSE h + k - PtSpace
         /\ (h + k) % PtSpace \in Pointer
<1> DEFINE a == h + k
<1>1. a \in Int /\ -PtSpace <= a /\ a < 2 * PtSpace /\ ~(a < 0)
  BY Sizes DEF Pointer
<1> HIDE DEF a
<1>2. a % PtSpace = IF a < 0 THEN a + PtSpace ELSE IF a < PtSpace THEN a ELSE a - PtSpace
  BY <1>1, Sizes, ModOnce
<1>3. a % PtSpace = (IF a < PtSpace THEN a ELSE a - PtSpace) /\ a % PtSpace \in Pointer
  BY <1>1, <1>2, Sizes DEF Pointer
<1>4. a = h + k /\ h \in Int /\ k \in Int /\ PtSpace \in Int
  BY Sizes DEF a, Pointer
<1> QED BY <1>3, <1>4

LEMMA NextPointer ==
  ASSUME NEW pt \in Pointer
  PROVE  /\ Next1(pt) = IF pt + 1 = PtSpace THEN 0 ELSE pt + 1
         /\ Next1(pt) \in Pointer
<1>1. 1 \in Pointer
  BY Sizes DEF Pointer
<1>2. (pt + 1) % PtSpace = IF pt + 1 < PtSpace THEN pt + 1 ELSE pt + 1 - PtSpace
  BY <1>1, PointerAt
<1>3. pt + 1 <= PtSpace /\ pt \in Nat
  BY Sizes DEF Pointer
<1> QED BY <1>2, <1>3, Sizes DEF Pointer, Next1

(* The pointer k places on is k ahead, and the other way round. *)
LEMMA DistanceBack ==
  ASSUME NEW h \in Pointer, NEW k \in Pointer
  PROVE  /\ (((h + k) % PtSpace) - h) % PtSpace = k
         /\ (h + ((k - h) % PtSpace)) % PtSpace = k
<1>1. (h + k) % PtSpace \in Pointer /\ (k - h) % PtSpace \in Pointer
  BY PointerAt, DistanceOf
<1>2. (((h + k) % PtSpace) - h) % PtSpace = k
  <2> DEFINE p == (h + k) % PtSpace
  <2>1. p \in Pointer /\ p = IF h + k < PtSpace THEN h + k ELSE h + k - PtSpace
    BY PointerAt
  <2>2. (p - h) % PtSpace = IF h <= p THEN p - h ELSE p - h + PtSpace
    BY <2>1, DistanceOf
  <2> HIDE DEF p
  <2>3. (p - h) % PtSpace = k
    BY <2>1, <2>2, Sizes DEF Pointer
  <2> QED BY <2>3 DEF p
<1>3. (h + ((k - h) % PtSpace)) % PtSpace = k
  <2> DEFINE d == (k - h) % PtSpace
  <2>1. d \in Pointer /\ d = IF h <= k THEN k - h ELSE k - h + PtSpace
    BY DistanceOf
  <2>2. (h + d) % PtSpace = IF h + d < PtSpace THEN h + d ELSE h + d - PtSpace
    BY <2>1, PointerAt
  <2> HIDE DEF d
  <2>3. (h + d) % PtSpace = k
    BY <2>1, <2>2, Sizes DEF Pointer
  <2> QED BY <2>3 DEF d
<1> QED BY <1>2, <1>3

(* A step of a pointer, while it is less than a round ahead. *)
LEMMA NextFurther ==
  ASSUME NEW h \in Pointer, NEW pt \in Pointer, ((pt - h) % PtSpace) + 1 < PtSpace
  PROVE  (Next1(pt) - h) % PtSpace = ((pt - h) % PtSpace) + 1
<1> DEFINE n == Next1(pt)
           d == (pt - h) % PtSpace
<1>1. n \in Pointer /\ n = IF pt + 1 = PtSpace THEN 0 ELSE pt + 1
  BY NextPointer
<1>2. (n - h) % PtSpace = IF h <= n THEN n - h ELSE n - h + PtSpace
  BY <1>1, DistanceOf
<1>3. d = IF h <= pt THEN pt - h ELSE pt - h + PtSpace
  BY DistanceOf
<1>4. d + 1 < PtSpace
  OBVIOUS
<1> HIDE DEF n, d
<1>5. (n - h) % PtSpace = d + 1
  BY <1>1, <1>2, <1>3, <1>4, Sizes DEF Pointer
<1> QED BY <1>5 DEF n, d

(* A step of the head brings a pointer nearer, and the places with it. *)
LEMMA NextNearer ==
  ASSUME NEW h \in Pointer, NEW pt \in Pointer, (pt - h) % PtSpace > 0
  PROVE  (pt - Next1(h)) % PtSpace = ((pt - h) % PtSpace) - 1
<1> DEFINE n == Next1(h)
           d == (pt - h) % PtSpace
<1>1. n \in Pointer /\ n = IF h + 1 = PtSpace THEN 0 ELSE h + 1
  BY NextPointer
<1>2. (pt - n) % PtSpace = IF n <= pt THEN pt - n ELSE pt - n + PtSpace
  BY <1>1, DistanceOf
<1>3. d = IF h <= pt THEN pt - h ELSE pt - h + PtSpace
  BY DistanceOf
<1>4. d > 0
  OBVIOUS
<1> HIDE DEF n, d
<1>5. (pt - n) % PtSpace = d - 1
  BY <1>1, <1>2, <1>3, <1>4, Sizes DEF Pointer
<1> QED BY <1>5 DEF n, d

LEMMA NextPlaces ==
  ASSUME NEW h \in Pointer, NEW k \in Pointer, k + 1 \in Pointer
  PROVE  (Next1(h) + k) % PtSpace = (h + (k + 1)) % PtSpace
<1> DEFINE n == Next1(h)
<1>1. n \in Pointer /\ n = IF h + 1 = PtSpace THEN 0 ELSE h + 1
  BY NextPointer
<1>2. (n + k) % PtSpace = IF n + k < PtSpace THEN n + k ELSE n + k - PtSpace
  BY <1>1, PointerAt
<1>3. (h + (k + 1)) % PtSpace
        = IF h + (k + 1) < PtSpace THEN h + (k + 1) ELSE h + (k + 1) - PtSpace
  BY PointerAt
<1> HIDE DEF n
<1>4. (n + k) % PtSpace = (h + (k + 1)) % PtSpace
  BY <1>1, <1>2, <1>3, Sizes DEF Pointer
<1> QED BY <1>4 DEF n

LEMMA SlotRange == ASSUME NEW pt \in Pointer PROVE SlotOf(pt) \in Slots
<1>1. pt \in Int
  BY Sizes DEF Pointer
<1> QED BY <1>1, Sizes, ModRange DEF SlotOf, Slots


-----------------------------------------------------------------------------
(* The pointers of the ring *)

LEMMA Pointers == TypesOK => head \in Pointer /\ curr \in Pointer /\ tail \in Pointer
  BY DEF TypesOK, Pointer

LEMMA Distances ==
  ASSUME TypesOK
  PROVE  /\ Ahead(curr) \in Pointer /\ Ahead(tail) \in Pointer
         /\ Ahead(curr) \in Nat /\ Ahead(tail) \in Nat
         /\ Ahead(tail) = BufSize => IsFull
         /\ IsFull => Ahead(tail) = BufSize
         /\ Ahead(curr) = 0 <=> head = curr
         /\ Ahead(tail) = Ahead(curr) <=> IsEmpty
         /\ Place(Ahead(tail)) = SlotOf(tail)
         /\ Place(Ahead(curr)) = SlotOf(curr)
         /\ Place(0) = SlotOf(head)
         /\ \A k \in Pointer : Place(k) \in Slots
<1>1. head \in Pointer /\ curr \in Pointer /\ tail \in Pointer
  BY Pointers
<1>2. Ahead(curr) \in Pointer /\ Ahead(tail) \in Pointer
  BY <1>1, DistanceOf DEF Ahead
<1>3. Pointer \subseteq Nat
  BY Sizes DEF Pointer
<1>4. BufSize \in Pointer /\ 0 \in Pointer
  BY Sizes DEF Pointer
<1>5. (head + BufSize) % PtSpace = tail => Ahead(tail) = BufSize
  BY <1>1, <1>4, DistanceBack DEF Ahead
<1>6. (head + Ahead(tail)) % PtSpace = tail /\ (head + Ahead(curr)) % PtSpace = curr
  BY <1>1, DistanceBack DEF Ahead
<1>7. Ahead(tail) = BufSize => IsFull
  BY <1>6 DEF IsFull
<1>8. (head + 0) % PtSpace = head
  <2>1. (head + 0) % PtSpace = IF head + 0 < PtSpace THEN head + 0 ELSE head + 0 - PtSpace
    BY <1>1, <1>4, PointerAt
  <2> QED BY <1>1, <2>1, Sizes DEF Pointer
<1>9. Ahead(curr) = IF head <= curr THEN curr - head ELSE curr - head + PtSpace
  BY <1>1, DistanceOf DEF Ahead
<1>10. Ahead(curr) = 0 <=> head = curr
  BY <1>1, <1>9, Sizes DEF Pointer
<1>11. Ahead(tail) = Ahead(curr) <=> tail = curr
  BY <1>6
<1>12. ASSUME NEW k \in Pointer PROVE Place(k) \in Slots
  BY <1>1, <1>12, PointerAt, SlotRange DEF Place
<1> QED BY <1>2, <1>3, <1>5, <1>6, <1>7, <1>8, <1>10, <1>11, <1>12 DEF IsFull, IsEmpty, Place

LEMMA TailMoves ==
  ASSUME TypesOK, Ahead(tail) < BufSize, tail' = Next1(tail), head' = head
  PROVE  /\ Ahead(tail)' = Ahead(tail) + 1 /\ tail' \in Pointer
         /\ \A k \in Pointer : Place(k)' = Place(k)
<1>1. head \in Pointer /\ tail \in Pointer /\ Ahead(tail) \in Pointer
  BY Pointers, Distances
<1>2. Ahead(tail) + 1 < PtSpace
  BY <1>1, Sizes DEF Pointer
<1>3. (Next1(tail) - head) % PtSpace = Ahead(tail) + 1
  BY <1>1, <1>2, NextFurther DEF Ahead
<1> QED BY <1>1, <1>3, NextPointer DEF Ahead, Place

LEMMA CurrMoves ==
  ASSUME TypesOK, Ahead(curr) < BufSize, curr' = Next1(curr), head' = head
  PROVE  Ahead(curr)' = Ahead(curr) + 1 /\ curr' \in Pointer
<1>1. head \in Pointer /\ curr \in Pointer /\ Ahead(curr) \in Pointer
  BY Pointers, Distances
<1>2. Ahead(curr) + 1 < PtSpace
  BY <1>1, Sizes DEF Pointer
<1>3. (Next1(curr) - head) % PtSpace = Ahead(curr) + 1
  BY <1>1, <1>2, NextFurther DEF Ahead
<1> QED BY <1>1, <1>3, NextPointer DEF Ahead

LEMMA HeadMoves ==
  ASSUME TypesOK, 0 < Ahead(curr), Ahead(curr) <= Ahead(tail),
         head' = Next1(head), curr' = curr, tail' = tail
  PROVE  /\ Ahead(curr)' = Ahead(curr) - 1 /\ Ahead(tail)' = Ahead(tail) - 1
         /\ head' \in Pointer
         /\ \A k \in Pointer : k + 1 \in Pointer => Place(k)' = Place(k + 1)
<1>1. head \in Pointer /\ curr \in Pointer /\ tail \in Pointer
  BY Pointers
<1>2. Ahead(curr) > 0 /\ Ahead(tail) > 0
  BY Distances
<1>3. (curr - Next1(head)) % PtSpace = Ahead(curr) - 1
  BY <1>1, <1>2, NextNearer DEF Ahead
<1>4. (tail - Next1(head)) % PtSpace = Ahead(tail) - 1
  BY <1>1, <1>2, NextNearer DEF Ahead
<1>5. ASSUME NEW k \in Pointer, k + 1 \in Pointer PROVE Place(k)' = Place(k + 1)
  <2>1. (Next1(head) + k) % PtSpace = (head + (k + 1)) % PtSpace
    BY <1>1, <1>5, NextPlaces
  <2> QED BY <2>1 DEF Place
<1> QED BY <1>1, <1>3, <1>4, <1>5, NextPointer DEF Ahead

LEMMA CurrGoesBack ==
  ASSUME TypesOK, NEW k \in Pointer, head' = head, curr' = (head + k) % PtSpace
  PROVE  Ahead(curr)' = k /\ curr' \in Pointer
<1>1. head \in Pointer
  BY Pointers
<1>2. (((head + k) % PtSpace) - head) % PtSpace = k
  BY <1>1, DistanceBack
<1> QED BY <1>1, <1>2, PointerAt DEF Ahead

-----------------------------------------------------------------------------
(* The steps *)

LEMMA SignalledPlaces ==
  ASSUME TypesOK, PlacesOK
  PROVE  /\ SignalEmpty \in [Threads -> {"idle", "acquire", "sleep", "element", "store",
                                         "take", "update", "free"}]
         /\ SignalFill \in [Threads -> {"idle", "acquire", "sleep", "element", "store",
                                        "take", "update", "free"}]
         /\ SignalEmpty[Reader] = IF pc[Reader] = "sleep" THEN "acquire" ELSE pc[Reader]
         /\ SignalEmpty[Sender] = pc[Sender] /\ SignalEmpty[Handler] = pc[Handler]
         /\ SignalFill[Sender] = IF pc[Sender] = "sleep" THEN "acquire" ELSE pc[Sender]
         /\ SignalFill[Reader] = pc[Reader] /\ SignalFill[Handler] = pc[Handler]
  BY ThreadsDistinct DEF TypesOK, SignalEmpty, SignalFill, Threads

LEMMA InitTypes == Init => TypesOK /\ PlacesOK
<1> SUFFICES ASSUME Init PROVE TypesOK /\ PlacesOK
  OBVIOUS
<1>1. /\ 0 \in 0..PtSpace - 1 /\ 0 \in 0..MaxPkts /\ 0 \in 0..NumRetrans /\ 0 \in Slots
      /\ 0 \in Nat
  BY Sizes DEF Slots
<1>2. <<>> \in Seq(0..PtSpace - 1) /\ Len(<<>>) <= MaxBatch
  BY Sizes
<1>3. EmptySlot \in [pkt : 0..MaxPkts, seq : 0..PtSpace - 1,
                     status : Statuses, retrans : 0..NumRetrans]
  BY <1>1 DEF EmptySlot, Statuses
<1>4. TypesOK
  BY <1>1, <1>2, <1>3 DEF Init, TypesOK
<1>5. PlacesOK
  BY DEF Init, PlacesOK, Threads
<1> QED BY <1>4, <1>5

LEMMA TypesStep == IInv /\ [Next]_vars => TypesOK'
<1> SUFFICES ASSUME TypesOK, PlacesOK, PointersOK, CountsOK, RingOK, [Next]_vars
             PROVE  TypesOK'
  BY DEF IInv
<1> USE DEF pointers, history, At, Goto, Threads
<1>0. head \in Pointer /\ curr \in Pointer /\ tail \in Pointer
  BY Pointers
<1>1. Next1(head) \in 0..PtSpace - 1 /\ Next1(curr) \in 0..PtSpace - 1
      /\ Next1(tail) \in 0..PtSpace - 1
  BY <1>0, NextPointer DEF Pointer
<1>2. SlotOf(head) \in Slots /\ SlotOf(curr) \in Slots /\ SlotOf(tail) \in Slots
  BY <1>0, SlotRange
<1>3. CASE EnqueuePkt
  BY <1>1, <1>3 DEF EnqueuePkt, TypesOK, SeqRead
<1>4. ASSUME NEW t \in Threads, NEW b, EnterOrSleep(t, b) PROVE TypesOK'
  BY <1>4 DEF EnterOrSleep, TypesOK
<1>5. CASE AcquireTailLock
  BY <1>1, <1>2, <1>5, SignalledPlaces DEF AcquireTailLock, TypesOK, LockElement
<1>6. CASE Store
  <2>1. CASE Abort
    BY <2>1 DEF Abort, TypesOK
  <2>2. CASE ~Abort
    <3> DEFINE i == index[Reader]
               s == [pkt |-> put', seq |-> seq, status |-> "New", retrans |-> NumRetrans]
    <3>1. put' = put + 1 /\ slots' = [slots EXCEPT ![i] = s]
          /\ elock' = UnLockElement(i) /\ Goto(Reader, "idle")
          /\ UNCHANGED <<pointers, qlock, index, seq, batch, times, aborted>>
      BY <1>6, <2>2 DEF Store
    <3>2. put' \in 0..MaxPkts
      <4>1. put \in 0..MaxPkts /\ put < MaxPkts
        BY <1>6 DEF Store, TypesOK, PlacesOK
      <4> QED BY <3>1, <4>1, Sizes
    <3>3. s \in [pkt : 0..MaxPkts, seq : 0..PtSpace - 1,
                 status : Statuses, retrans : 0..NumRetrans]
      <4>1. NumRetrans \in 0..NumRetrans
        BY Sizes
      <4> QED BY <3>2, <4>1 DEF TypesOK, Statuses
    <3> HIDE DEF s
    <3> QED BY <3>1, <3>2, <3>3 DEF TypesOK, UnLockElement
  <2> QED BY <2>1, <2>2
<1>7. ASSUME NEW t \in Threads, SpuriousWakeup(t) PROVE TypesOK'
  BY <1>7 DEF SpuriousWakeup, TypesOK
<1>8. CASE DequeuePkt
  BY <1>8 DEF DequeuePkt, TypesOK
<1>9. CASE UpdateBatchSendTime
  BY <1>9 DEF UpdateBatchSendTime, TypesOK
<1>10. CASE Timeout
  BY <1>10 DEF Timeout, TypesOK
<1>11. CASE AcquireCurrLock
  BY <1>1, <1>2, <1>11 DEF AcquireCurrLock, TypesOK, LockElement, CurrPassed
<1>12. CASE Take
  <2> DEFINE i == index[Sender]
             s == slots[i]
  <2>1. CASE Abort
    BY <2>1 DEF Abort, TypesOK
  <2>2. CASE ~Abort /\ s.status \notin {"New", "Retrans"}
    BY <1>12, <2>2 DEF Take, TypesOK, UnLockTaken, UnLockElement
  <2>3. CASE ~Abort /\ s.status \in {"New", "Retrans"}
    <3>1. /\ slots' = [slots EXCEPT ![i] = Taken(s)] /\ batch' = Append(batch, s.seq)
          /\ times' = [times EXCEPT ![s.pkt] = @ + 1]
          /\ elock' = UnLockTaken(i) /\ Goto(Sender, "idle")
          /\ UNCHANGED <<pointers, qlock, index, seq, put, aborted>>
      BY <1>12, <2>3 DEF Take
    <3>2. i \in Slots /\ s \in [pkt : 0..MaxPkts, seq : 0..PtSpace - 1,
                                status : Statuses, retrans : 0..NumRetrans]
      BY DEF TypesOK
    <3>3. s.status = "Retrans" => s.retrans > 0
      BY <3>2 DEF CountsOK
    <3>4. s.status = "Retrans" => s.retrans - 1 \in 0..NumRetrans
      <4>1. s.retrans \in 0..NumRetrans
        BY <3>2
      <4> QED BY <3>3, <4>1, Sizes
    <3>5. Taken(s) \in [pkt : 0..MaxPkts, seq : 0..PtSpace - 1,
                        status : Statuses, retrans : 0..NumRetrans]
      BY <3>2, <3>4 DEF Taken, Statuses
    <3>6. batch' \in Seq(0..PtSpace - 1) /\ Len(batch') = Len(batch) + 1
      <4>1. s.seq \in 0..PtSpace - 1 /\ batch \in Seq(0..PtSpace - 1)
        BY <3>2 DEF TypesOK
      <4> QED BY <3>1, <4>1, AppendProperties
    <3>7. Len(batch') <= MaxBatch
      <4>1. Len(batch) < MaxBatch /\ Len(batch) \in Nat
        BY <1>12, LenProperties DEF Take, TypesOK, PlacesOK
      <4> QED BY <3>6, <4>1, Sizes
    <3>8. times' \in [Pkts -> Nat]
      <4>1. times \in [Pkts -> Nat] /\ \A p \in Pkts : times[p] + 1 \in Nat
        BY DEF TypesOK
      <4> QED BY <3>1, <4>1
    <3> HIDE DEF s, i
    <3> QED BY <3>1, <3>2, <3>5, <3>6, <3>7, <3>8 DEF TypesOK, UnLockTaken, UnLockElement
  <2> QED BY <2>1, <2>2, <2>3
<1>13. CASE UpdateElement
  <2>1. CASE Abort
    BY <2>1 DEF Abort, TypesOK
  <2>2. CASE ~Abort
    <3>1. batch # <<>> /\ batch' = Tail(batch)
      BY <1>13, <2>2 DEF UpdateElement, PlacesOK
    <3>2. batch \in Seq(0..PtSpace - 1) /\ Len(batch) <= MaxBatch
      BY DEF TypesOK
    <3>3. batch' \in Seq(0..PtSpace - 1) /\ Len(batch') = Len(batch) - 1 /\ Len(batch) \in Nat
      BY <3>1, <3>2, HeadTailProperties, LenProperties
    <3>4. Len(batch') <= MaxBatch
      BY <3>2, <3>3, Sizes
    <3> QED BY <1>13, <2>2, <3>3, <3>4 DEF UpdateElement, TypesOK
  <2> QED BY <2>1, <2>2
<1>14. CASE Acked
  BY <1>14 DEF Acked, TypesOK
<1>15. CASE AcquireHeadLock
  BY <1>1, <1>2, <1>15, SignalledPlaces DEF AcquireHeadLock, TypesOK, LockElement
<1>16. CASE Free
  <2>1. EmptySlot \in [pkt : 0..MaxPkts, seq : 0..PtSpace - 1,
                       status : Statuses, retrans : 0..NumRetrans]
    BY Sizes DEF EmptySlot, Statuses
  <2> QED BY <1>16, <2>1 DEF Free, TypesOK, UnLockElement
<1>17. ASSUME NEW k \in Slots, Nacked(k) PROVE TypesOK'
  <2>1. k \in Pointer
    BY Sizes DEF Slots, Pointer
  <2>2. (head + k) % PtSpace \in 0..PtSpace - 1
    BY <1>0, <2>1, PointerAt DEF Pointer
  <2> QED BY <1>17, <2>2 DEF Nacked, TypesOK, Statuses
<1>18. ASSUME NEW k \in Slots, DisableRetransmission(k) PROVE TypesOK'
  <2>1. 0 \in 0..NumRetrans
    BY Sizes
  <2> QED BY <1>18, <2>1 DEF DisableRetransmission, TypesOK
<1>19. CASE UNCHANGED vars
  BY <1>19 DEF vars, TypesOK
<1> QED BY <1>3, <1>4, <1>5, <1>6, <1>7, <1>8, <1>9, <1>10, <1>11, <1>12, <1>13, <1>14,
           <1>15, <1>16, <1>17, <1>18, <1>19
        DEF Next, ReaderStep, SenderStep, HandlerStep


LEMMA PlacesStep == IInv /\ [Next]_vars => PlacesOK'
<1> SUFFICES ASSUME TypesOK, PlacesOK, PointersOK, [Next]_vars
             PROVE  PlacesOK'
  BY DEF IInv
<1> USE ThreadsDistinct DEF pointers, history, At, Goto, Threads, PlacesOK
<1>0. /\ pc \in [Threads -> {"idle", "acquire", "sleep", "element", "store", "take",
                             "update", "free"}]
      /\ elock \in [Slots -> Threads \cup {NoThread}] /\ index \in [Threads -> Slots]
  BY DEF TypesOK
<1>3. CASE EnqueuePkt
  BY <1>0, <1>3 DEF EnqueuePkt
<1>4. CASE EnterOrSleep(Reader, IsFull)
  BY <1>0, <1>4 DEF EnterOrSleep
<1>5. CASE AcquireTailLock
  <2> DEFINE i == SlotOf(tail)
  <2>1. /\ pc[Reader] = "element" /\ pc' = [SignalFill EXCEPT ![Reader] = "store"]
        /\ elock' = [elock EXCEPT ![i] = Reader] /\ elock[i] = NoThread
        /\ index' = [index EXCEPT ![Reader] = i]
        /\ qlock' = NoThread /\ UNCHANGED <<batch, put>>
    BY <1>5 DEF AcquireTailLock, LockElement, Unlocked
  <2>2. i \in Slots
    BY Pointers, SlotRange
  <2> HIDE DEF i
  <2>3. /\ pc'[Reader] = "store"
        /\ \A t \in Threads \ {Reader} : pc'[t] = pc[t] \/ (pc[t] = "sleep" /\ pc'[t] = "acquire")
    BY <1>0, <2>1, SignalledPlaces
  <2>4. ASSUME NEW t \in Threads, pc'[t] \in {"store", "take", "free"}
        PROVE  elock'[index'[t]] = t
    BY <1>0, <2>1, <2>2, <2>3, <2>4
  <2>5. ASSUME NEW t \in Threads PROVE pc'[t] # "element" /\ pc'[t] # "update"
    <3>1. t # Reader => pc[t] # "element" /\ pc[t] # "update"
      BY <2>1
    <3> QED BY <2>3, <3>1
  <2> QED BY <2>1, <2>3, <2>4, <2>5
<1>6. CASE Store
  <2>1. CASE Abort
    BY <2>1 DEF Abort
  <2>2. CASE ~Abort
    <3>1. /\ pc' = [pc EXCEPT ![Reader] = "idle"] /\ pc[Reader] = "store"
          /\ elock' = [elock EXCEPT ![index[Reader]] = NoThread]
          /\ UNCHANGED <<qlock, index, batch>>
      BY <1>6, <2>2 DEF Store, UnLockElement
    <3> QED BY <1>0, <3>1
  <2> QED BY <2>1, <2>2
<1>7. CASE SpuriousWakeup(Reader)
  BY <1>0, <1>7 DEF SpuriousWakeup
<1>8. CASE DequeuePkt
  BY <1>0, <1>8 DEF DequeuePkt
<1>9. CASE UpdateBatchSendTime
  BY <1>0, <1>9 DEF UpdateBatchSendTime
<1>10. CASE Timeout
  BY <1>0, <1>10 DEF Timeout
<1>11. CASE AcquireCurrLock
  <2> DEFINE i == SlotOf(curr)
  <2>1. /\ pc[Sender] = "element" /\ pc' = [pc EXCEPT ![Sender] = "take"]
        /\ elock' = [elock EXCEPT ![i] = Sender] /\ elock[i] = NoThread
        /\ index' = [index EXCEPT ![Sender] = i]
        /\ qlock' = NoThread /\ UNCHANGED <<batch, put>>
    BY <1>11 DEF AcquireCurrLock, LockElement, Unlocked
  <2>2. i \in Slots
    BY Pointers, SlotRange
  <2> HIDE DEF i
  <2>3. /\ pc'[Sender] = "take"
        /\ \A t \in Threads \ {Sender} : pc'[t] = pc[t] \/ (pc[t] = "sleep" /\ pc'[t] = "acquire")
    BY <1>0, <2>1, SignalledPlaces
  <2>4. ASSUME NEW t \in Threads, pc'[t] \in {"store", "take", "free"}
        PROVE  elock'[index'[t]] = t
    BY <1>0, <2>1, <2>2, <2>3, <2>4
  <2>5. ASSUME NEW t \in Threads PROVE pc'[t] # "element" /\ pc'[t] # "update"
    <3>1. t # Sender => pc[t] # "element" /\ pc[t] # "update"
      BY <2>1
    <3> QED BY <2>3, <3>1
  <2> QED BY <2>1, <2>3, <2>4, <2>5
<1>12. CASE Take
  <2>1. CASE Abort
    BY <2>1 DEF Abort
  <2>2. CASE ~Abort
    <3>1. /\ pc' = [pc EXCEPT ![Sender] = "idle"] /\ pc[Sender] = "take"
          /\ elock' = [elock EXCEPT ![index[Sender]] = NoThread]
          /\ UNCHANGED <<qlock, index, put>>
      BY <1>12, <2>2 DEF Take, UnLockTaken, UnLockElement
    <3> QED BY <1>0, <3>1
  <2> QED BY <2>1, <2>2
<1>13. CASE UpdateElement
  BY <1>0, <1>13 DEF UpdateElement, Abort
<1>14. CASE EnterOrSleep(Sender, IsEmpty)
  BY <1>0, <1>14 DEF EnterOrSleep
<1>15. CASE SpuriousWakeup(Sender)
  BY <1>0, <1>15 DEF SpuriousWakeup
<1>16. CASE Acked
  BY <1>0, <1>16 DEF Acked
<1>17. CASE EnterOrSleep(Handler, head = tail)
  <2>1. head # tail
    <3>1. 0 < Ahead(curr) /\ Ahead(curr) <= Ahead(tail)
      BY <1>17 DEF EnterOrSleep, PointersOK, PointersInOrder
    <3>2. Ahead(curr) \in Nat /\ Ahead(tail) \in Nat
      BY Distances
    <3>3. Ahead(tail) # 0
      BY <3>1, <3>2
    <3>4. head = tail => Ahead(tail) = 0
      <4>1. tail \in Int /\ tail - tail = 0 /\ 0 \in Int
        BY Pointers, Sizes DEF Pointer
      <4>2. 0 % PtSpace = 0
        BY Sizes, ModOnce
      <4> QED BY <4>1, <4>2 DEF Ahead
    <3> QED BY <3>3, <3>4
  <2> QED BY <1>0, <1>17, <2>1 DEF EnterOrSleep
<1>18. CASE AcquireHeadLock
  <2> DEFINE i == SlotOf(head)
  <2>1. /\ pc[Handler] = "element" /\ pc' = [SignalEmpty EXCEPT ![Handler] = "free"]
        /\ elock' = [elock EXCEPT ![i] = Handler] /\ elock[i] = NoThread
        /\ index' = [index EXCEPT ![Handler] = i]
        /\ qlock' = NoThread /\ UNCHANGED <<batch, put>>
    BY <1>18 DEF AcquireHeadLock, LockElement, Unlocked
  <2>2. i \in Slots
    BY Pointers, SlotRange
  <2> HIDE DEF i
  <2>3. /\ pc'[Handler] = "free"
        /\ \A t \in Threads \ {Handler} : pc'[t] = pc[t] \/ (pc[t] = "sleep" /\ pc'[t] = "acquire")
    BY <1>0, <2>1, SignalledPlaces
  <2>4. ASSUME NEW t \in Threads, pc'[t] \in {"store", "take", "free"}
        PROVE  elock'[index'[t]] = t
    BY <1>0, <2>1, <2>2, <2>3, <2>4
  <2>5. ASSUME NEW t \in Threads PROVE pc'[t] # "element" /\ pc'[t] # "update"
    <3>1. t # Handler => pc[t] # "element" /\ pc[t] # "update"
      BY <2>1
    <3> QED BY <2>3, <3>1
  <2> QED BY <2>1, <2>3, <2>4, <2>5
<1>19. CASE Free
  <2>1. /\ pc' = [pc EXCEPT ![Handler] = "idle"] /\ pc[Handler] = "free"
        /\ elock' = [elock EXCEPT ![index[Handler]] = NoThread]
        /\ UNCHANGED <<qlock, index, batch, put>>
    BY <1>19 DEF Free, UnLockElement
  <2> QED BY <1>0, <2>1
<1>20. ASSUME NEW k \in Slots, Nacked(k) PROVE PlacesOK'
  BY <1>20 DEF Nacked
<1>21. ASSUME NEW k \in Slots, DisableRetransmission(k) PROVE PlacesOK'
  BY <1>21 DEF DisableRetransmission
<1>22. CASE UNCHANGED vars
  BY <1>22 DEF vars
<1> QED BY <1>3, <1>4, <1>5, <1>6, <1>7, <1>8, <1>9, <1>10, <1>11, <1>12, <1>13, <1>14,
           <1>15, <1>16, <1>17, <1>18, <1>19, <1>20, <1>21, <1>22
        DEF Next, ReaderStep, SenderStep, HandlerStep


LEMMA SamePointers ==
  UNCHANGED pointers =>
    /\ Ahead(curr)' = Ahead(curr) /\ Ahead(tail)' = Ahead(tail)
    /\ IsFull' = IsFull /\ \A k : Place(k)' = Place(k)
  BY DEF pointers, Ahead, IsFull, Place

(* What PointersOK says when the pointers and slots stay. *)
LEMMA PointersStay ==
  ASSUME PointersOK, UNCHANGED pointers, index'[Reader] = index[Reader],
         Ahead(tail) <= Passed',
         pc'[Reader] = "element" => pc[Reader] = "element" \/ Ahead(tail) < BufSize,
         pc'[Reader] = "store" => pc[Reader] = "store",
         pc'[Reader] = "sleep" => pc[Reader] = "sleep" \/ IsFull,
         pc'[Sender] = "element" => pc[Sender] = "element" \/ Ahead(curr) < Ahead(tail),
         pc'[Handler] \in {"acquire", "element"} =>
           pc[Handler] \in {"acquire", "element"} \/ 0 < Ahead(curr)
  PROVE  PointersOK'
<1>1. PointersInOrder' /\ Ahead(tail)' <= Passed'
  BY SamePointers DEF PointersOK, PointersInOrder
<1>2. pc'[Reader] = "element" => Ahead(tail)' < BufSize
  BY SamePointers DEF PointersOK
<1>3. pc'[Reader] = "store" => /\ Ahead(curr)' < Ahead(tail)'
                               /\ index'[Reader] = Place(Ahead(tail) - 1)'
  <2>1. Place(Ahead(tail) - 1)' = Place(Ahead(tail) - 1)
    BY DEF pointers, Place, Ahead
  <2> QED BY <2>1, SamePointers DEF PointersOK
<1>4. pc'[Sender] = "element" => Ahead(curr)' < Ahead(tail)'
  BY SamePointers DEF PointersOK
<1>5. pc'[Handler] \in {"acquire", "element"} => 0 < Ahead(curr)'
  BY SamePointers DEF PointersOK
<1>6. ReaderSleepsWhileFull'
  BY SamePointers DEF PointersOK, ReaderSleepsWhileFull
<1> QED BY <1>1, <1>2, <1>3, <1>4, <1>5, <1>6 DEF PointersOK

LEMMA PassedStays ==
  ASSUME PlacesOK, put' = put, pc'[Reader] = "store" <=> pc[Reader] = "store"
  PROVE  Passed' = Passed
  BY DEF Passed, Storing

LEMMA InitPointers == Init => PointersOK
<1> SUFFICES ASSUME Init PROVE PointersOK
  OBVIOUS
<1>1. head = curr /\ head = tail /\ Passed = 0
  <2>1. Storing = 0
    BY DEF Init, Storing, Threads
  <2> QED BY <2>1 DEF Init, Passed
<1>2. Ahead(curr) = 0 /\ Ahead(tail) = 0
  <2>1. TypesOK
    BY InitTypes
  <2> QED BY <1>1, <2>1, Distances
<1>3. \A t \in Threads : pc[t] = "idle"
  BY DEF Init
<1> QED BY <1>1, <1>2, <1>3, Sizes
        DEF PointersOK, PointersInOrder, ReaderSleepsWhileFull, Threads

LEMMA PointersStep == IInv /\ [Next]_vars => PointersOK'
<1> SUFFICES ASSUME TypesOK, PlacesOK, PointersOK, [Next]_vars
             PROVE  PointersOK'
  BY DEF IInv
<1> USE ThreadsDistinct
<1>0. /\ pc \in [Threads -> {"idle", "acquire", "sleep", "element", "store", "take",
                             "update", "free"}]
      /\ index \in [Threads -> Slots] /\ Reader \in Threads
      /\ Sender \in Threads /\ Handler \in Threads
  BY DEF TypesOK, Threads
<1>1. /\ Ahead(curr) \in Nat /\ Ahead(tail) \in Nat /\ Ahead(curr) <= Ahead(tail)
      /\ Ahead(tail) <= BufSize /\ Ahead(tail) <= Passed
  BY Distances DEF PointersOK, PointersInOrder
<1>2. put \in Nat /\ Passed \in Nat
  BY Sizes DEF TypesOK, Passed, Storing
<1> USE DEF history, At, Goto
<1>3. CASE EnqueuePkt
  <2>1. Passed' = Passed
    BY <1>0, <1>3, PassedStays DEF EnqueuePkt
  <2> QED BY <1>0, <1>1, <1>3, <2>1, PointersStay DEF EnqueuePkt
<1>4. CASE EnterOrSleep(Reader, IsFull)
  <2>1. Passed' = Passed
    BY <1>0, <1>4, PassedStays DEF EnterOrSleep
  <2>2. ~IsFull => Ahead(tail) < BufSize
    BY <1>1, Sizes, Distances
  <2> QED BY <1>0, <1>1, <1>4, <2>1, <2>2, PointersStay DEF EnterOrSleep
<1>5. CASE AcquireTailLock
  <2>1. /\ pc[Reader] = "element" /\ pc' = [SignalFill EXCEPT ![Reader] = "store"]
        /\ index' = [index EXCEPT ![Reader] = SlotOf(tail)]
        /\ tail' = Next1(tail) /\ head' = head /\ curr' = curr /\ put' = put
    BY <1>5 DEF AcquireTailLock
  <2>2. /\ pc'[Reader] = "store" /\ pc'[Handler] = pc[Handler]
        /\ pc'[Sender] = "element" => pc[Sender] = "element"
        /\ index'[Reader] = SlotOf(tail)
    BY <1>0, <2>1, SignalledPlaces
  <2>3. Ahead(tail) < BufSize
    BY <2>1 DEF PointersOK
  <2>4. Ahead(tail)' = Ahead(tail) + 1 /\ \A k \in Pointer : Place(k)' = Place(k)
    BY <2>1, <2>3, TailMoves
  <2>5. Ahead(curr)' = Ahead(curr)
    BY <2>1 DEF Ahead
  <2>6. Passed' = Passed + 1
    BY <1>2, <2>1, <2>2 DEF Passed, Storing
  <2>7. (Ahead(tail) - 1)' = Ahead(tail)
    BY <1>1, <2>4
  <2>8. index'[Reader] = Place(Ahead(tail) - 1)'
    <3>1. Place(Ahead(tail) - 1)' = Place(Ahead(tail))
      BY <2>1, <2>7 DEF Place
    <3> QED BY <2>2, <3>1, Distances
  <2>9. /\ Ahead(curr)' <= Ahead(tail)' /\ Ahead(tail)' <= BufSize
        /\ Ahead(curr)' < Ahead(tail)' /\ Ahead(tail)' <= Passed'
    BY <1>1, <1>2, <2>3, <2>4, <2>5, <2>6, Sizes
  <2> QED BY <2>2, <2>5, <2>8, <2>9
          DEF PointersOK, PointersInOrder, ReaderSleepsWhileFull
<1>6. CASE Store
  <2>1. CASE Abort
    <3>1. Passed' = Passed
      BY <1>0, <2>1, PassedStays DEF Abort
    <3> QED BY <1>1, <2>1, <3>1, PointersStay DEF Abort
  <2>2. CASE ~Abort
    <3>1. /\ pc' = [pc EXCEPT ![Reader] = "idle"] /\ pc[Reader] = "store" /\ put' = put + 1
          /\ UNCHANGED <<pointers, index>>
      BY <1>6, <2>2 DEF Store
    <3>2. Passed' = Passed
      BY <1>0, <1>2, <3>1 DEF Passed, Storing
    <3> QED BY <1>0, <1>1, <3>1, <3>2, PointersStay
  <2> QED BY <2>1, <2>2
<1>7. CASE SpuriousWakeup(Reader)
  <2>1. Passed' = Passed
    BY <1>0, <1>7, PassedStays DEF SpuriousWakeup
  <2> QED BY <1>0, <1>1, <1>7, <2>1, PointersStay DEF SpuriousWakeup
<1>8. CASE DequeuePkt
  <2>1. Passed' = Passed
    BY <1>0, <1>8, PassedStays DEF DequeuePkt
  <2> QED BY <1>0, <1>1, <1>8, <2>1, PointersStay DEF DequeuePkt
<1>9. CASE UpdateBatchSendTime
  <2>1. Passed' = Passed
    BY <1>0, <1>9, PassedStays DEF UpdateBatchSendTime
  <2> QED BY <1>0, <1>1, <1>9, <2>1, PointersStay DEF UpdateBatchSendTime
<1>10. CASE Timeout
  <2>1. Passed' = Passed
    BY <1>0, <1>10, PassedStays DEF Timeout
  <2> QED BY <1>0, <1>1, <1>10, <2>1, PointersStay DEF Timeout
<1>11. CASE AcquireCurrLock
  <2>1. /\ pc[Sender] = "element" /\ pc' = [pc EXCEPT ![Sender] = "take"]
        /\ index' = [index EXCEPT ![Sender] = SlotOf(curr)] /\ elock[SlotOf(curr)] = NoThread
        /\ curr' = Next1(curr) /\ head' = head /\ tail' = tail /\ put' = put
    BY <1>11 DEF AcquireCurrLock, CurrPassed, Unlocked
  <2>2. /\ pc'[Reader] = pc[Reader] /\ pc'[Handler] = pc[Handler] /\ pc'[Sender] = "take"
        /\ index'[Reader] = index[Reader] /\ Passed' = Passed
    <3>1. /\ pc'[Reader] = pc[Reader] /\ pc'[Handler] = pc[Handler] /\ pc'[Sender] = "take"
          /\ index'[Reader] = index[Reader]
      BY <1>0, <2>1
    <3> QED BY <2>1, <3>1, PassedStays
  <2>3. Ahead(curr) < Ahead(tail)
    BY <2>1 DEF PointersOK
  <2>4. Ahead(curr)' = Ahead(curr) + 1
    <3>1. Ahead(curr) < BufSize
      BY <1>1, <2>3, Sizes
    <3> QED BY <2>1, <3>1, CurrMoves
  <2>5. Ahead(tail)' = Ahead(tail) /\ IsFull' = IsFull
    BY <2>1 DEF Ahead, IsFull
  <2>6. pc[Reader] = "store" => Ahead(curr) # Ahead(tail) - 1
    <3>1. pc[Reader] = "store" => /\ elock[index[Reader]] = Reader
                                  /\ index[Reader] = Place(Ahead(tail) - 1)
      BY DEF PlacesOK, PointersOK, Threads
    <3>2. Place(Ahead(curr)) = SlotOf(curr)
      BY Distances
    <3> QED BY <2>1, <3>1, <3>2
  <2>7. pc[Reader] = "store" => Ahead(curr)' < Ahead(tail)'
    BY <1>1, <2>3, <2>4, <2>5, <2>6
  <2>8. Place(Ahead(tail) - 1)' = Place(Ahead(tail) - 1)
    BY <2>1 DEF Place, Ahead
  <2>9. Ahead(curr)' <= Ahead(tail)' /\ 0 < Ahead(curr)'
    BY <1>1, <2>3, <2>4, <2>5
  <2> QED BY <1>1, <2>2, <2>5, <2>7, <2>8, <2>9
          DEF PointersOK, PointersInOrder, ReaderSleepsWhileFull
<1>12. CASE Take
  <2>1. CASE Abort
    <3>1. Passed' = Passed
      BY <1>0, <2>1, PassedStays DEF Abort
    <3> QED BY <1>1, <2>1, <3>1, PointersStay DEF Abort
  <2>2. CASE ~Abort
    <3>1. /\ pc' = [pc EXCEPT ![Sender] = "idle"] /\ put' = put
          /\ UNCHANGED <<pointers, index>>
      BY <1>12, <2>2 DEF Take
    <3>2. Passed' = Passed
      BY <1>0, <3>1, PassedStays
    <3> QED BY <1>0, <1>1, <3>1, <3>2, PointersStay
  <2> QED BY <2>1, <2>2
<1>13. CASE UpdateElement
  <2>1. /\ UNCHANGED <<pointers, index, put>>
        /\ pc' = pc \/ pc' = [pc EXCEPT ![Sender] = "idle"]
    BY <1>13 DEF UpdateElement, Abort
  <2>2. Passed' = Passed
    BY <1>0, <2>1, PassedStays
  <2> QED BY <1>0, <1>1, <2>1, <2>2, PointersStay
<1>14. CASE EnterOrSleep(Sender, IsEmpty)
  <2>1. Passed' = Passed
    BY <1>0, <1>14, PassedStays DEF EnterOrSleep
  <2>2. ~IsEmpty => Ahead(curr) < Ahead(tail)
    BY <1>1, Distances
  <2> QED BY <1>0, <1>1, <1>14, <2>1, <2>2, PointersStay DEF EnterOrSleep
<1>15. CASE SpuriousWakeup(Sender)
  <2>1. Passed' = Passed
    BY <1>0, <1>15, PassedStays DEF SpuriousWakeup
  <2> QED BY <1>0, <1>1, <1>15, <2>1, PointersStay DEF SpuriousWakeup
<1>16. CASE Acked
  <2>1. Passed' = Passed
    BY <1>0, <1>16, PassedStays DEF Acked
  <2>2. 0 < Ahead(curr)
    BY <1>1, <1>16, Distances DEF Acked
  <2> QED BY <1>0, <1>1, <1>16, <2>1, <2>2, PointersStay DEF Acked
<1>17. CASE EnterOrSleep(Handler, head = tail)
  <2>1. Passed' = Passed
    BY <1>0, <1>17, PassedStays DEF EnterOrSleep
  <2> QED BY <1>0, <1>1, <1>17, <2>1, PointersStay DEF EnterOrSleep
<1>18. CASE AcquireHeadLock
  <2>1. /\ pc[Handler] = "element" /\ pc' = [SignalEmpty EXCEPT ![Handler] = "free"]
        /\ index' = [index EXCEPT ![Handler] = SlotOf(head)]
        /\ head' = Next1(head) /\ curr' = curr /\ tail' = tail /\ put' = put
    BY <1>18 DEF AcquireHeadLock
  <2>2. /\ pc'[Handler] = "free" /\ pc'[Sender] = pc[Sender] /\ pc'[Reader] # "sleep"
        /\ pc'[Reader] \in {"store", "element"} => pc'[Reader] = pc[Reader]
        /\ pc'[Reader] = "store" <=> pc[Reader] = "store"
        /\ index'[Reader] = index[Reader]
    BY <1>0, <2>1, SignalledPlaces
  <2>3. Passed' = Passed
    BY <2>1, <2>2, PassedStays
  <2>4. 0 < Ahead(curr)
    BY <2>1 DEF PointersOK
  <2>5. /\ Ahead(curr)' = Ahead(curr) - 1 /\ Ahead(tail)' = Ahead(tail) - 1
        /\ \A k \in Pointer : k + 1 \in Pointer => Place(k)' = Place(k + 1)
    BY <1>1, <2>1, <2>4, HeadMoves
  <2>6. /\ Ahead(curr)' <= Ahead(tail)' /\ Ahead(tail)' <= BufSize /\ Ahead(tail)' <= Passed'
        /\ Ahead(tail)' < BufSize
        /\ Ahead(curr) < Ahead(tail) => Ahead(curr)' < Ahead(tail)'
    BY <1>1, <1>2, <2>3, <2>4, <2>5, Sizes
  <2>7. pc[Reader] = "store" => Place(Ahead(tail) - 1)' = Place(Ahead(tail) - 1)
    <3> SUFFICES ASSUME pc[Reader] = "store" PROVE Place(Ahead(tail) - 1)' = Place(Ahead(tail) - 1)
      OBVIOUS
    <3>1. Ahead(curr) < Ahead(tail)
      BY DEF PointersOK
    <3> DEFINE k == Ahead(tail) - 2
    <3>2. k \in Pointer /\ k + 1 \in Pointer /\ k + 1 = Ahead(tail) - 1
      BY <1>1, <2>4, <3>1, Sizes DEF Pointer
    <3>3. (Ahead(tail) - 1)' = k
      BY <1>1, <2>5
    <3>4. (Next1(head) + k) % PtSpace = (head + (k + 1)) % PtSpace
      BY <3>2, Pointers, NextPlaces
    <3>5. Place(Ahead(tail) - 1)' = SlotOf((Next1(head) + k) % PtSpace)
      BY <2>1, <3>3 DEF Place
    <3> QED BY <3>2, <3>4, <3>5 DEF Place
  <2> QED BY <2>2, <2>6, <2>7
          DEF PointersOK, PointersInOrder, ReaderSleepsWhileFull
<1>19. CASE Free
  <2>1. /\ pc' = [pc EXCEPT ![Handler] = "idle"] /\ UNCHANGED <<pointers, index, put>>
    BY <1>19 DEF Free
  <2>2. Passed' = Passed
    BY <1>0, <2>1, PassedStays
  <2> QED BY <1>0, <1>1, <2>1, <2>2, PointersStay
<1>20. ASSUME NEW k \in Slots, Nacked(k) PROVE PointersOK'
  <2>1. /\ pc[Handler] = "idle" /\ UNCHANGED <<head, tail, pc, index, put>> /\ qlock = NoThread
        /\ curr' = IF k < Ahead(curr) THEN (head + k) % PtSpace ELSE curr
    BY <1>20 DEF Nacked
  <2>2. k \in Pointer /\ k \in Nat
    BY Sizes DEF Slots, Pointer
  <2>3. Ahead(curr)' <= Ahead(curr) /\ Ahead(curr)' \in Nat
    <3>1. CASE k < Ahead(curr)
      <4>1. Ahead(curr)' = k
        BY <2>1, <2>2, <3>1, CurrGoesBack
      <4> QED BY <1>1, <2>2, <3>1, <4>1
    <3>2. CASE ~(k < Ahead(curr))
      <4>1. Ahead(curr)' = Ahead(curr)
        BY <2>1, <3>2 DEF Ahead
      <4> QED BY <1>1, <4>1
    <3> QED BY <3>1, <3>2
  <2>4. /\ Ahead(tail)' = Ahead(tail) /\ IsFull' = IsFull /\ Passed' = Passed
        /\ Place(Ahead(tail) - 1)' = Place(Ahead(tail) - 1)
    BY <2>1 DEF Ahead, IsFull, Place, Passed, Storing
  <2>5. Ahead(curr)' <= Ahead(tail)' /\ (Ahead(curr) < Ahead(tail) => Ahead(curr)' < Ahead(tail)')
    BY <1>1, <2>3, <2>4
  <2>6. Ahead(tail)' <= BufSize /\ Ahead(tail)' <= Passed'
    BY <1>1, <2>4
  <2> QED BY <2>1, <2>4, <2>5, <2>6
          DEF PointersOK, PointersInOrder, ReaderSleepsWhileFull
<1>21. ASSUME NEW k \in Slots, DisableRetransmission(k) PROVE PointersOK'
  <2>1. UNCHANGED <<pointers, index, put, pc>>
    BY <1>21 DEF DisableRetransmission
  <2>2. Passed' = Passed
    BY <2>1, PassedStays
  <2> QED BY <1>1, <2>1, <2>2, PointersStay
<1>22. CASE UNCHANGED vars
  <2>1. UNCHANGED <<pointers, index, put, pc>>
    BY <1>22 DEF vars
  <2>2. Passed' = Passed
    BY <2>1, PassedStays
  <2> QED BY <1>1, <2>1, <2>2, PointersStay
<1> QED BY <1>3, <1>4, <1>5, <1>6, <1>7, <1>8, <1>9, <1>10, <1>11, <1>12, <1>13, <1>14,
           <1>15, <1>16, <1>17, <1>18, <1>19, <1>20, <1>21, <1>22
        DEF Next, ReaderStep, SenderStep, HandlerStep


-----------------------------------------------------------------------------
(* The packets in the ring *)

(* A step that leaves the pointers and the packets as they are. *)
Quiet ==
  /\ UNCHANGED <<head, curr, tail, slots, put, times, index>>
  /\ Passed' = Passed
  /\ pc'[Sender] = "take" <=> pc[Sender] = "take"
  /\ pc'[Handler] = "free" <=> pc[Handler] = "free"
  /\ pc'[Handler] \in {"acquire", "element"} =>
       pc[Handler] \in {"acquire", "element"} \/ Sent(SlotOf(head))

LEMMA StepCases ==
  ASSUME TypesOK, PlacesOK, Next
  PROVE  \/ AcquireTailLock
         \/ Store /\ ~Abort
         \/ AcquireCurrLock
         \/ Take /\ ~Abort
         \/ AcquireHeadLock
         \/ Free
         \/ \E k \in Slots : Nacked(k)
         \/ \E i \in Slots : DisableRetransmission(i)
         \/ Quiet
<1> USE ThreadsDistinct DEF history, pointers, At, Goto
<1>0. /\ pc \in [Threads -> {"idle", "acquire", "sleep", "element", "store", "take",
                             "update", "free"}]
      /\ Reader \in Threads /\ Sender \in Threads /\ Handler \in Threads
  BY DEF TypesOK, Threads
<1>1. CASE EnqueuePkt
  BY <1>0, <1>1 DEF EnqueuePkt, Quiet, Passed, Storing
<1>2. CASE EnterOrSleep(Reader, IsFull)
  BY <1>0, <1>2 DEF EnterOrSleep, Quiet, Passed, Storing
<1>3. CASE Abort
  BY <1>3 DEF Abort, Quiet, Passed, Storing
<1>4. CASE SpuriousWakeup(Reader)
  BY <1>0, <1>4 DEF SpuriousWakeup, Quiet, Passed, Storing
<1>5. CASE DequeuePkt
  BY <1>0, <1>5 DEF DequeuePkt, Quiet, Passed, Storing
<1>6. CASE UpdateBatchSendTime
  BY <1>0, <1>6 DEF UpdateBatchSendTime, Quiet, Passed, Storing
<1>7. CASE Timeout
  BY <1>0, <1>7 DEF Timeout, Quiet, Passed, Storing
<1>8. CASE UpdateElement /\ ~Abort
  BY <1>0, <1>8 DEF UpdateElement, Quiet, Passed, Storing
<1>9. CASE EnterOrSleep(Sender, IsEmpty)
  BY <1>0, <1>9 DEF EnterOrSleep, Quiet, Passed, Storing
<1>10. CASE SpuriousWakeup(Sender)
  BY <1>0, <1>10 DEF SpuriousWakeup, Quiet, Passed, Storing
<1>11. CASE Acked
  BY <1>0, <1>11 DEF Acked, Quiet, Passed, Storing
<1>12. CASE EnterOrSleep(Handler, head = tail)
  BY <1>0, <1>12 DEF EnterOrSleep, Quiet, Passed, Storing
<1> QED BY <1>1, <1>2, <1>3, <1>4, <1>5, <1>6, <1>7, <1>8, <1>9, <1>10, <1>11, <1>12
        DEF Next, ReaderStep, SenderStep, HandlerStep

LEMMA GoneType ==
  ASSUME TypesOK, PointersOK
  PROVE  /\ Gone \in Nat /\ Passed \in Nat /\ put \in Nat
         /\ Passed = Gone + Ahead(tail)
         /\ Passed = put + Storing /\ Storing \in {0, 1}
         /\ put <= Passed /\ Passed <= put + 1
<1>1. Ahead(tail) \in Nat /\ Ahead(tail) <= Passed
  BY Distances DEF PointersOK
<1>2. put \in Nat /\ Storing \in {0, 1} /\ Passed = put + Storing
  BY Sizes DEF TypesOK, Storing, Passed
<1>3. Passed \in Nat /\ put <= Passed /\ Passed <= put + 1
  BY <1>2
<1> QED BY <1>1, <1>2, <1>3 DEF Gone

(* The places from the head to the tail. *)
LEMMA PlaceTypes ==
  ASSUME TypesOK, PointersOK, NEW k \in 0..Ahead(tail) - 1
  PROVE  /\ k \in Pointer /\ k \in Nat /\ Place(k) \in Slots
         /\ PktAt(k) \in Nat /\ PktAt(k) > Gone
<1>1. Ahead(tail) \in Pointer /\ Ahead(tail) \in Nat
  BY Distances
<1>2. k \in Pointer /\ k \in Nat
  BY <1>1, Sizes DEF Pointer
<1>3. PktAt(k) \in Nat /\ PktAt(k) > Gone
  BY <1>2, GoneType DEF PktAt
<1> QED BY <1>2, <1>3, Distances

(* A packet is in one slot. *)
LEMMA OneSlot ==
  ASSUME TypesOK, PointersOK, RingOK,
         NEW i \in Slots, NEW j \in Slots,
         slots[i].status # "Empty", slots[j].status # "Empty",
         slots[i].pkt = slots[j].pkt
  PROVE  i = j
<1> DEFINE InRing(l) == \E k \in 0..Ahead(tail) - 1 : l = Place(k) /\ slots[l].pkt = PktAt(k)
           InHand(l) == pc[Handler] = "free" /\ l = index[Handler]
<1>1. (InRing(i) \/ InHand(i)) /\ (InRing(j) \/ InHand(j))
  BY DEF RingOK
<1>2. \A l \in Slots : InHand(l) => slots[l].pkt = Gone
  BY DEF RingOK
<1>3. ASSUME NEW l \in Slots, InRing(l) PROVE slots[l].pkt # Gone
  <2>1. PICK k \in 0..Ahead(tail) - 1 : l = Place(k) /\ slots[l].pkt = PktAt(k)
    BY <1>3
  <2>2. PktAt(k) > Gone /\ PktAt(k) \in Nat /\ Gone \in Nat
    BY PlaceTypes, GoneType
  <2>3. PktAt(k) # Gone
    BY <2>2
  <2> QED BY <2>1, <2>3
<1>4. CASE InRing(i) /\ InRing(j)
  <2>1. PICK k \in 0..Ahead(tail) - 1 : i = Place(k) /\ slots[i].pkt = PktAt(k)
    BY <1>4
  <2>2. PICK m \in 0..Ahead(tail) - 1 : j = Place(m) /\ slots[j].pkt = PktAt(m)
    BY <1>4
  <2>3. k \in Nat /\ m \in Nat /\ Gone \in Nat
    BY PlaceTypes, GoneType
  <2>4. Gone + k + 1 = Gone + m + 1
    BY <2>1, <2>2 DEF PktAt
  <2>5. k = m
    BY <2>3, <2>4
  <2> QED BY <2>1, <2>2, <2>5
<1>5. CASE InHand(i) /\ InHand(j)
  BY <1>5
<1>6. CASE InRing(i) /\ InHand(j)
  BY <1>2, <1>3, <1>6
<1>7. CASE InHand(i) /\ InRing(j)
  BY <1>2, <1>3, <1>7
<1> HIDE DEF InRing, InHand
<1> QED BY <1>1, <1>4, <1>5, <1>6, <1>7

(* What RingOK says when no packet comes or goes. *)
LEMMA RingStays ==
  ASSUME RingOK, UNCHANGED <<head, tail, put>>, Passed' = Passed,
         index'[Handler] = index[Handler],
         \A i \in Slots : /\ slots'[i].pkt = slots[i].pkt
                          /\ slots'[i].status = "Empty" <=> slots[i].status = "Empty",
         \A k \in 0..Ahead(tail) - 1 : Place(k) \in Slots,
         pc'[Handler] = "free" <=> pc[Handler] = "free",
         pc'[Handler] = "free" => /\ index[Handler] \in Slots
                                  /\ slots'[index[Handler]].status = "Outbound",
         pc'[Handler] \in {"acquire", "element"} => slots'[Place(0)].status = "Outbound"
  PROVE  RingOK'
<1>1. Ahead(tail)' = Ahead(tail) /\ Gone' = Gone
  BY DEF Ahead, Gone
<1>2. \A k : Place(k)' = Place(k) /\ PktAt(k)' = PktAt(k)
  BY <1>1 DEF Place, PktAt
<1>3. ASSUME NEW k \in 0..Ahead(tail) - 1, PktAt(k) <= put
      PROVE  slots'[Place(k)].status # "Empty" /\ slots'[Place(k)].pkt = PktAt(k)
  <2>1. slots[Place(k)].status # "Empty" /\ slots[Place(k)].pkt = PktAt(k)
    BY <1>3 DEF RingOK
  <2> QED BY <2>1
<1>4. ASSUME NEW i \in Slots, slots'[i].status # "Empty"
      PROVE  /\ slots'[i].pkt \in 1..put
             /\ \/ \E k \in 0..Ahead(tail) - 1 : i = Place(k) /\ slots'[i].pkt = PktAt(k)
                \/ pc'[Handler] = "free" /\ i = index[Handler]
  <2>1. slots[i].status # "Empty" /\ slots'[i].pkt = slots[i].pkt
    BY <1>4
  <2> QED BY <2>1 DEF RingOK
<1>5. pc'[Handler] = "free" => slots'[index[Handler]].pkt = Gone
  BY DEF RingOK
<1>6. Place(0)' = Place(0)
  BY DEF Place
<1> QED BY <1>1, <1>2, <1>3, <1>4, <1>5, <1>6 DEF RingOK


LEMMA InitRing == Init => RingOK
<1> SUFFICES ASSUME Init PROVE RingOK
  OBVIOUS
<1>1. TypesOK
  BY InitTypes
<1>2. head = tail
  BY DEF Init
<1>3. Ahead(tail) = 0
  <2>1. head = curr
    BY DEF Init
  <2> QED BY <1>1, <1>2, <2>1, Distances
<1>4. 0..Ahead(tail) - 1 = {}
  BY <1>3
<1>5. \A i \in Slots : slots[i].status = "Empty"
  BY DEF Init, EmptySlot
<1>6. pc[Handler] = "idle"
  BY DEF Init, Threads
<1> QED BY <1>4, <1>5, <1>6 DEF RingOK

LEMMA RingStep == IInv /\ [Next]_vars => RingOK'
<1> SUFFICES ASSUME TypesOK, PlacesOK, PointersOK, RingOK, [Next]_vars
             PROVE  RingOK'
  BY DEF IInv
<1> USE ThreadsDistinct
<1>0. /\ pc \in [Threads -> {"idle", "acquire", "sleep", "element", "store", "take",
                             "update", "free"}]
      /\ index \in [Threads -> Slots] /\ Reader \in Threads
      /\ Sender \in Threads /\ Handler \in Threads
      /\ \A t \in Threads : index[t] \in Slots
  BY DEF TypesOK, Threads
<1>1. /\ Ahead(curr) \in Nat /\ Ahead(tail) \in Nat /\ Ahead(curr) <= Ahead(tail)
      /\ Ahead(tail) <= BufSize
  BY Distances DEF PointersOK, PointersInOrder
<1>2. Gone \in Nat /\ Passed \in Nat /\ put \in Nat /\ Passed = Gone + Ahead(tail)
  BY GoneType
<1>3. \A k \in 0..Ahead(tail) - 1 : Place(k) \in Slots
  BY PlaceTypes
<1>4. \A i \in Slots : slots[i] \in [pkt : 0..MaxPkts, seq : 0..PtSpace - 1,
                                     status : Statuses, retrans : 0..NumRetrans]
  BY DEF TypesOK
<1>5. Place(0) \in Slots /\ Place(0) = SlotOf(head)
  <2>1. 0 \in Pointer
    BY Sizes DEF Pointer
  <2> QED BY <2>1, Distances
<1> USE DEF history, At, Goto
<1>6. CASE AcquireTailLock
  <2>1. /\ pc[Reader] = "element" /\ pc' = [SignalFill EXCEPT ![Reader] = "store"]
        /\ index' = [index EXCEPT ![Reader] = SlotOf(tail)]
        /\ tail' = Next1(tail) /\ head' = head /\ put' = put /\ slots' = slots
    BY <1>6 DEF AcquireTailLock
  <2>2. /\ pc'[Reader] = "store" /\ pc'[Handler] = pc[Handler]
        /\ index'[Handler] = index[Handler]
    BY <1>0, <2>1, SignalledPlaces
  <2>3. Ahead(tail)' = Ahead(tail) + 1 /\ \A k \in Pointer : Place(k)' = Place(k)
    <3>1. Ahead(tail) < BufSize
      BY <2>1 DEF PointersOK
    <3> QED BY <2>1, <3>1, TailMoves
  <2>4. Passed = put /\ Passed' = put + 1
    BY <1>2, <2>1, <2>2 DEF Passed, Storing
  <2>5. Gone' = Gone
    <3>1. Gone' = Passed' - Ahead(tail)'
      BY DEF Gone
    <3> QED BY <1>1, <1>2, <2>3, <2>4, <3>1
  <2>6. \A k : PktAt(k)' = PktAt(k)
    BY <2>5 DEF PktAt
  <2>7. Place(0)' = Place(0)
    BY <2>1 DEF Place
  <2>8. ASSUME NEW k \in 0..(Ahead(tail)'- 1), PktAt(k)' <= put
        PROVE  slots[Place(k)'].status # "Empty" /\ slots[Place(k)'].pkt = PktAt(k)'
    <3>1. k \in Nat /\ k <= Ahead(tail) /\ Gone + k + 1 <= put
      BY <1>1, <2>3, <2>6, <2>8 DEF PktAt
    <3>2. k # Ahead(tail)
      BY <1>1, <1>2, <2>4, <3>1
    <3>3. k \in 0..Ahead(tail) - 1
      BY <1>1, <3>1, <3>2
    <3>4. k \in Pointer
      BY <3>3, PlaceTypes
    <3> QED BY <2>3, <2>6, <2>8, <3>3, <3>4 DEF RingOK
  <2>9. ASSUME NEW i \in Slots, NEW k \in 0..Ahead(tail) - 1,
               i = Place(k), slots[i].pkt = PktAt(k)
        PROVE  \E m \in 0..(Ahead(tail)' - 1) : i = Place(m)' /\ slots[i].pkt = PktAt(m)'
    <3>1. k \in 0..(Ahead(tail)' - 1)
      BY <1>1, <2>3
    <3>2. k \in Pointer
      BY PlaceTypes
    <3> QED BY <2>3, <2>6, <2>9, <3>1, <3>2
  <2>10. ASSUME NEW i \in Slots, slots[i].status # "Empty"
         PROVE  /\ slots[i].pkt \in 1..put
                /\ \/ \E m \in 0..(Ahead(tail)' - 1) : i = Place(m)' /\ slots[i].pkt = PktAt(m)'
                   \/ pc[Handler] = "free" /\ i = index[Handler]
    BY <2>9, <2>10 DEF RingOK
  <2> QED BY <2>1, <2>2, <2>5, <2>7, <2>8, <2>10 DEF RingOK

<1>7. CASE Store /\ ~Abort
  <2> DEFINE i == index[Reader]
             s == [pkt |-> put', seq |-> seq, status |-> "New", retrans |-> NumRetrans]
             last == Ahead(tail) - 1
  <2>1. /\ pc[Reader] = "store" /\ pc' = [pc EXCEPT ![Reader] = "idle"]
        /\ slots[i].status = "Empty" /\ slots' = [slots EXCEPT ![i] = s] /\ put' = put + 1
        /\ UNCHANGED <<head, curr, tail, index>>
    BY <1>7 DEF Store, pointers
  <2>2. i = Place(last) /\ last \in 0..Ahead(tail) - 1
    <3>1. Ahead(curr) < Ahead(tail) /\ i = Place(Ahead(tail) - 1)
      BY <2>1 DEF PointersOK
    <3> QED BY <1>1, <3>1
  <2>3. pc'[Reader] = "idle" /\ pc'[Handler] = pc[Handler]
    BY <1>0, <2>1
  <2>4. Passed = put + 1 /\ Passed' = put + 1
    BY <1>2, <2>1, <2>3 DEF Passed, Storing
  <2>5. Ahead(tail)' = Ahead(tail) /\ Gone' = Gone
    BY <2>1, <2>4 DEF Gone, Ahead
  <2>6. \A k : Place(k)' = Place(k) /\ PktAt(k)' = PktAt(k)
    BY <2>1, <2>5 DEF Place, PktAt
  <2>7. slots'[i] = s /\ s.pkt = put + 1 /\ s.status = "New"
        /\ \A j \in Slots \ {i} : slots'[j] = slots[j]
    BY <1>0, <2>1 DEF TypesOK
  <2>8. PktAt(last) = put + 1
    BY <1>1, <1>2, <2>4 DEF PktAt
  <2> HIDE DEF i, s, last
  <2>9. ASSUME NEW k \in 0..Ahead(tail) - 1, PktAt(k) <= put'
        PROVE  slots'[Place(k)].status # "Empty" /\ slots'[Place(k)].pkt = PktAt(k)
    <3>1. CASE PktAt(k) <= put
      <4>1. slots[Place(k)].status # "Empty" /\ slots[Place(k)].pkt = PktAt(k)
        BY <3>1 DEF RingOK
      <4>2. Place(k) # i
        BY <2>1, <4>1
      <4> QED BY <1>3, <2>7, <4>1, <4>2
    <3>2. CASE ~(PktAt(k) <= put)
      <4>1. PktAt(k) = put + 1
        BY <1>2, <2>1, <2>9, <3>2, PlaceTypes
      <4>2. Gone + k + 1 = Gone + last + 1 /\ k \in Nat /\ last \in Nat
        BY <2>2, <2>8, <4>1, PlaceTypes DEF PktAt
      <4>3. k = last
        BY <1>2, <4>2
      <4> QED BY <2>2, <2>7, <2>8, <4>3
    <3> QED BY <3>1, <3>2
  <2>10. ASSUME NEW j \in Slots, slots'[j].status # "Empty"
         PROVE  /\ slots'[j].pkt \in 1..put'
                /\ \/ \E k \in 0..Ahead(tail) - 1 : j = Place(k) /\ slots'[j].pkt = PktAt(k)
                   \/ pc[Handler] = "free" /\ j = index[Handler]
    <3>1. CASE j = i
      <4>1. slots'[j].pkt = put + 1 /\ put + 1 \in 1..put + 1
        BY <1>2, <2>7, <3>1
      <4> QED BY <2>1, <2>2, <2>8, <3>1, <4>1
    <3>2. CASE j # i
      <4>1. slots'[j] = slots[j] /\ slots[j].status # "Empty"
        BY <2>7, <2>10, <3>2
      <4>2. slots[j].pkt \in 1..put
        BY <4>1 DEF RingOK
      <4>3. slots[j].pkt \in 1..put + 1
        BY <1>2, <4>2
      <4> QED BY <2>1, <4>1, <4>3 DEF RingOK
    <3> QED BY <3>1, <3>2
  <2>11. pc[Handler] \in {"acquire", "element"} => slots'[Place(0)].status = "Outbound"
    <3>1. pc[Handler] \in {"acquire", "element"} => slots[Place(0)].status = "Outbound"
      BY DEF RingOK
    <3> QED BY <1>5, <2>1, <2>7, <3>1
  <2>12. pc[Handler] = "free" => /\ slots'[index[Handler]].status = "Outbound"
                                 /\ slots'[index[Handler]].pkt = Gone
    <3>1. pc[Handler] = "free" => /\ slots[index[Handler]].status = "Outbound"
                                  /\ slots[index[Handler]].pkt = Gone
      BY DEF RingOK
    <3> QED BY <1>0, <2>1, <2>7, <3>1
  <2> QED BY <2>1, <2>3, <2>5, <2>6, <2>9, <2>10, <2>11, <2>12 DEF RingOK
<1>8. CASE AcquireCurrLock
  <2>1. /\ pc' = [pc EXCEPT ![Sender] = "take"] /\ pc[Sender] = "element"
        /\ index' = [index EXCEPT ![Sender] = SlotOf(curr)]
        /\ head' = head /\ tail' = tail /\ put' = put /\ slots' = slots
    BY <1>8 DEF AcquireCurrLock
  <2>2. index'[Handler] = index[Handler] /\ pc'[Handler] = pc[Handler]
        /\ pc'[Reader] = pc[Reader]
    BY <1>0, <2>1
  <2>3. Passed' = Passed
    BY <2>1, <2>2, PassedStays
  <2>4. pc[Handler] = "free" => slots[index[Handler]].status = "Outbound"
    BY DEF RingOK
  <2>5. pc[Handler] \in {"acquire", "element"} => slots[Place(0)].status = "Outbound"
    BY DEF RingOK
  <2> QED BY <1>0, <1>3, <2>1, <2>2, <2>3, <2>4, <2>5, RingStays
<1>9. CASE Take /\ ~Abort
  <2> DEFINE i == index[Sender]
  <2>1. /\ pc' = [pc EXCEPT ![Sender] = "idle"]
        /\ UNCHANGED <<head, curr, tail, index, put>>
        /\ slots' = slots \/ slots' = [slots EXCEPT ![i] = Taken(slots[i])]
        /\ slots' # slots => slots[i].status \in {"New", "Retrans"}
    BY <1>9 DEF Take, pointers
  <2>2. pc'[Handler] = pc[Handler] /\ pc'[Reader] = pc[Reader]
    BY <1>0, <2>1
  <2>3. Passed' = Passed
    BY <2>1, <2>2, PassedStays
  <2>4. Taken(slots[i]).pkt = slots[i].pkt /\ Taken(slots[i]).status = "Outbound"
    BY <1>0, <1>4 DEF Taken
  <2>5. ASSUME NEW j \in Slots
        PROVE  /\ slots'[j].pkt = slots[j].pkt
               /\ slots'[j].status = "Empty" <=> slots[j].status = "Empty"
               /\ slots[j].status = "Outbound" => slots'[j].status = "Outbound"
    <3>1. CASE slots' = slots
      BY <3>1
    <3>2. CASE slots' # slots /\ j = i
      <4>1. slots'[j] = Taken(slots[i]) /\ slots[i].status \in {"New", "Retrans"}
        BY <1>0, <2>1, <3>2 DEF TypesOK
      <4> QED BY <2>4, <3>2, <4>1
    <3>3. CASE slots' # slots /\ j # i
      BY <2>1, <3>3 DEF TypesOK
    <3> QED BY <3>1, <3>2, <3>3
  <2>6. pc[Handler] = "free" => slots'[index[Handler]].status = "Outbound"
    BY <1>0, <2>5 DEF RingOK
  <2>7. pc[Handler] \in {"acquire", "element"} => slots'[Place(0)].status = "Outbound"
    BY <1>5, <2>5 DEF RingOK
  <2> QED BY <1>0, <1>3, <2>1, <2>2, <2>3, <2>5, <2>6, <2>7, RingStays
<1>10. CASE AcquireHeadLock
  <2>1. /\ pc[Handler] = "element" /\ pc' = [SignalEmpty EXCEPT ![Handler] = "free"]
        /\ index' = [index EXCEPT ![Handler] = SlotOf(head)]
        /\ head' = Next1(head) /\ curr' = curr /\ tail' = tail /\ put' = put /\ slots' = slots
    BY <1>10 DEF AcquireHeadLock
  <2>2. /\ pc'[Handler] = "free" /\ index'[Handler] = Place(0)
        /\ pc'[Reader] = "store" <=> pc[Reader] = "store"
    BY <1>0, <1>5, <2>1, SignalledPlaces
  <2>3. Passed' = Passed
    BY <2>1, <2>2, PassedStays
  <2>4. 0 < Ahead(curr)
    BY <2>1 DEF PointersOK
  <2>5. /\ Ahead(tail)' = Ahead(tail) - 1
        /\ \A k \in Pointer : k + 1 \in Pointer => Place(k)' = Place(k + 1)
    BY <1>1, <2>1, <2>4, HeadMoves
  <2>6. Gone' = Gone + 1
    <3>1. Gone' = Passed' - Ahead(tail)'
      BY DEF Gone
    <3> QED BY <1>1, <1>2, <2>3, <2>5, <3>1
  <2>7. ASSUME NEW k \in Nat PROVE PktAt(k)' = PktAt(k + 1)
    <3>1. PktAt(k)' = Gone' + k + 1 /\ PktAt(k + 1) = Gone + (k + 1) + 1
      BY DEF PktAt
    <3> QED BY <1>2, <2>6, <3>1
  <2>8. ASSUME NEW k \in 0..(Ahead(tail)' - 1)
        PROVE  /\ k \in Nat /\ k + 1 \in 0..Ahead(tail) - 1
               /\ Place(k)' = Place(k + 1) /\ PktAt(k)' = PktAt(k + 1)
    <3>1. k \in Nat /\ k + 1 \in 0..Ahead(tail) - 1 /\ k \in 0..Ahead(tail) - 1
      BY <1>1, <2>5
    <3>2. k \in Pointer /\ k + 1 \in Pointer
      BY <3>1, PlaceTypes
    <3> QED BY <2>5, <2>7, <3>1, <3>2
  <2>9. ASSUME NEW k \in 0..(Ahead(tail)' - 1), PktAt(k)' <= put
        PROVE  slots[Place(k)'].status # "Empty" /\ slots[Place(k)'].pkt = PktAt(k)'
    BY <2>8, <2>9 DEF RingOK
  <2>10. PktAt(0) <= put /\ 0 \in 0..Ahead(tail) - 1 /\ PktAt(0) = Gone + 1
    <3>1. pc[Reader] = "store" => Ahead(curr) < Ahead(tail)
      BY DEF PointersOK
    <3>2. CASE pc[Reader] = "store"
      <4>1. Passed = put + 1 /\ Ahead(curr) < Ahead(tail)
        BY <3>1, <3>2 DEF Passed, Storing
      <4> QED BY <1>1, <1>2, <2>4, <4>1 DEF PktAt
    <3>3. CASE pc[Reader] # "store"
      <4>1. Passed = put
        BY <1>2, <3>3 DEF Passed, Storing
      <4> QED BY <1>1, <1>2, <2>4, <4>1 DEF PktAt
    <3> QED BY <3>2, <3>3
  <2>11. slots[Place(0)].status = "Outbound" /\ slots[Place(0)].pkt = Gone + 1
    BY <2>1, <2>10 DEF RingOK
  <2>12. ASSUME NEW j \in Slots, slots[j].status # "Empty"
         PROVE  /\ slots[j].pkt \in 1..put
                /\ \/ \E m \in 0..(Ahead(tail)' - 1) : j = Place(m)' /\ slots[j].pkt = PktAt(m)'
                   \/ j = Place(0)
    <3>1. PICK k \in 0..Ahead(tail) - 1 : j = Place(k) /\ slots[j].pkt = PktAt(k)
      BY <2>1, <2>12 DEF RingOK
    <3>2. CASE k = 0
      BY <2>12, <3>1, <3>2 DEF RingOK
    <3>3. CASE k # 0
      <4>1. k - 1 \in 0..(Ahead(tail)' - 1) /\ (k - 1) + 1 = k
        BY <1>1, <2>5, <3>3
      <4>2. Place(k - 1)' = Place(k) /\ PktAt(k - 1)' = PktAt(k)
        BY <2>8, <4>1
      <4> QED BY <2>12, <3>1, <4>1, <4>2 DEF RingOK
    <3> QED BY <3>2, <3>3
  <2> QED BY <2>1, <2>2, <2>6, <2>9, <2>11, <2>12 DEF RingOK
<1>11. CASE Free
  <2> DEFINE i == index[Handler]
  <2>1. /\ pc[Handler] = "free" /\ pc' = [pc EXCEPT ![Handler] = "idle"]
        /\ slots' = [slots EXCEPT ![i] = EmptySlot]
        /\ UNCHANGED <<head, curr, tail, index, put>>
    BY <1>11 DEF Free, pointers
  <2>2. pc'[Handler] = "idle" /\ pc'[Reader] = pc[Reader]
    BY <1>0, <2>1
  <2>3. Passed' = Passed
    BY <2>1, <2>2, PassedStays
  <2>4. Ahead(tail)' = Ahead(tail) /\ Gone' = Gone
    BY <2>1, <2>3 DEF Gone, Ahead
  <2>5. \A k : Place(k)' = Place(k) /\ PktAt(k)' = PktAt(k)
    BY <2>1, <2>4 DEF Place, PktAt
  <2>6. slots'[i].status = "Empty" /\ \A j \in Slots \ {i} : slots'[j] = slots[j]
    BY <1>0, <2>1 DEF TypesOK, EmptySlot
  <2>7. slots[i].pkt = Gone
    BY <2>1 DEF RingOK
  <2> HIDE DEF i
  <2>8. ASSUME NEW k \in 0..Ahead(tail) - 1, PktAt(k) <= put
        PROVE  slots'[Place(k)].status # "Empty" /\ slots'[Place(k)].pkt = PktAt(k)
    <3>1. slots[Place(k)].status # "Empty" /\ slots[Place(k)].pkt = PktAt(k)
      BY <2>8 DEF RingOK
    <3>2. PktAt(k) # Gone
      <4>1. PktAt(k) > Gone /\ PktAt(k) \in Nat
        BY PlaceTypes
      <4> QED BY <1>2, <4>1
    <3>3. Place(k) # i
      BY <2>7, <3>1, <3>2
    <3> QED BY <1>3, <2>6, <3>1, <3>3
  <2>9. ASSUME NEW j \in Slots, slots'[j].status # "Empty"
        PROVE  /\ slots'[j].pkt \in 1..put
               /\ \E k \in 0..Ahead(tail) - 1 : j = Place(k) /\ slots'[j].pkt = PktAt(k)
    <3>1. j # i /\ slots'[j] = slots[j] /\ slots[j].status # "Empty"
      BY <2>6, <2>9
    <3> QED BY <3>1 DEF RingOK, i
  <2> QED BY <2>1, <2>2, <2>4, <2>5, <2>8, <2>9 DEF RingOK
<1>12. ASSUME NEW k \in Slots, Nacked(k) PROVE RingOK'
  <2> DEFINE i == SlotOf((head + k) % PtSpace)
  <2>1. /\ pc[Handler] = "idle" /\ UNCHANGED <<head, tail, pc, index, put>>
        /\ slots[i].status = "Outbound"
        /\ slots' = [slots EXCEPT ![i].status = "Retrans"]
    BY <1>12 DEF Nacked, Sent, pointers
  <2>2. Passed' = Passed
    BY <2>1, PassedStays
  <2>3. ASSUME NEW j \in Slots
        PROVE  /\ slots'[j].pkt = slots[j].pkt
               /\ slots'[j].status = "Empty" <=> slots[j].status = "Empty"
    <3>1. \/ slots'[j] = slots[j]
          \/ j = i /\ slots'[j] = [slots[j] EXCEPT !.status = "Retrans"]
      BY <2>1 DEF TypesOK
    <3> QED BY <1>4, <2>1, <3>1
  <2> HIDE DEF i
  <2> QED BY <1>0, <1>3, <2>1, <2>2, <2>3, RingStays
<1>15. ASSUME NEW i \in Slots, DisableRetransmission(i) PROVE RingOK'
  <2>1. /\ pc[Handler] = "idle" /\ UNCHANGED <<head, tail, pc, index, put>>
        /\ slots' = [slots EXCEPT ![i].retrans = 0]
    BY <1>15 DEF DisableRetransmission, pointers
  <2>2. Passed' = Passed
    BY <2>1, PassedStays
  <2>3. ASSUME NEW j \in Slots
        PROVE  slots'[j].pkt = slots[j].pkt /\ slots'[j].status = slots[j].status
    <3>1. slots'[j] = slots[j] \/ slots'[j] = [slots[j] EXCEPT !.retrans = 0]
      BY <2>1 DEF TypesOK
    <3> QED BY <1>4, <3>1
  <2> QED BY <1>0, <1>3, <2>1, <2>2, <2>3, RingStays
<1>13. CASE Quiet
  <2>1. pc'[Handler] \in {"acquire", "element"} => slots[Place(0)].status = "Outbound"
    BY <1>5, <1>13 DEF Quiet, RingOK, Sent
  <2>2. pc'[Handler] = "free" => slots[index[Handler]].status = "Outbound"
    BY <1>13 DEF Quiet, RingOK
  <2> QED BY <1>0, <1>3, <1>13, <2>1, <2>2, RingStays DEF Quiet
<1>14. CASE UNCHANGED vars
  <2>1. Quiet
    BY <1>14 DEF Quiet, vars, pointers, Passed, Storing
  <2> QED BY <1>13, <2>1
<1> QED BY <1>6, <1>7, <1>8, <1>9, <1>10, <1>11, <1>12, <1>13, <1>14, <1>15, StepCases


-----------------------------------------------------------------------------
(* How often the packets are sent *)

LEMMA InitCounts == Init => CountsOK
<1> SUFFICES ASSUME Init PROVE CountsOK
  OBVIOUS
<1>1. \A i \in Slots : slots[i].status = "Empty"
  BY DEF Init, EmptySlot
<1>2. \A p \in Pkts : times[p] = 0
  BY DEF Init
<1>3. 0 <= 1 + NumRetrans
  BY Sizes
<1> QED BY <1>1, <1>2, <1>3 DEF CountsOK

LEMMA CountsStep == IInv /\ [Next]_vars => CountsOK'
<1> SUFFICES ASSUME TypesOK, PlacesOK, PointersOK, RingOK, CountsOK, [Next]_vars
             PROVE  CountsOK'
  BY DEF IInv
<1> DEFINE Count(s, n) == /\ s.status = "New" <=> n = 0
                          /\ n + s.retrans <= 1 + NumRetrans
                          /\ s.status = "Retrans" => s.retrans > 0
<1>1. \A i \in Slots : slots[i].status # "Empty" => Count(slots[i], times[slots[i].pkt])
  BY DEF CountsOK
<1>2. \A p \in Pkts : times[p] <= 1 + NumRetrans /\ (p > put => times[p] = 0)
  BY DEF CountsOK
<1>3. /\ \A i \in Slots : slots[i] \in [pkt : 0..MaxPkts, seq : 0..PtSpace - 1,
                                        status : Statuses, retrans : 0..NumRetrans]
      /\ \A p \in Pkts : times[p] \in Nat
      /\ \A t \in Threads : index[t] \in Slots
      /\ put \in 0..MaxPkts
  BY DEF TypesOK
<1>4. ASSUME NEW i \in Slots
      PROVE  /\ slots[i].retrans \in Nat /\ slots[i].retrans <= NumRetrans
             /\ slots[i].status # "Empty" => slots[i].pkt \in Pkts /\ slots[i].pkt <= put
  <2>1. slots[i].retrans \in 0..NumRetrans
    BY <1>3
  <2>2. slots[i].status # "Empty" => slots[i].pkt \in 1..put
    BY DEF RingOK
  <2>3. \A p \in 1..put : p \in Pkts /\ p <= put
    BY <1>3, Sizes DEF Pkts
  <2> QED BY <2>1, <2>2, <2>3, Sizes
<1>5. Reader \in Threads /\ Sender \in Threads /\ Handler \in Threads
  BY DEF Threads
<1> SUFFICES /\ \A i \in Slots : slots'[i].status # "Empty"
                                   => Count(slots'[i], times'[slots'[i].pkt])
             /\ \A p \in Pkts : times'[p] <= 1 + NumRetrans /\ (p > put' => times'[p] = 0)
  BY DEF CountsOK
<1>6. CASE UNCHANGED <<slots, times, put>>
  BY <1>1, <1>2, <1>6
<1>7. CASE Store /\ ~Abort
  <2> DEFINE i == index[Reader]
             s == [pkt |-> put', seq |-> seq, status |-> "New", retrans |-> NumRetrans]
  <2>1. slots' = [slots EXCEPT ![i] = s] /\ put' = put + 1 /\ times' = times
    BY <1>7 DEF Store, history
  <2>2. put < MaxPkts /\ put \in Nat
    BY <1>3, <1>7, Sizes DEF Store, At, PlacesOK
  <2>3. put + 1 \in Pkts /\ put + 1 > put
    BY <2>2, Sizes DEF Pkts
  <2>4. times[put + 1] = 0
    BY <1>2, <2>3
  <2>5. Count(s, times[put + 1])
    BY <2>4, Sizes
  <2>6. slots'[i] = s /\ s.pkt = put + 1 /\ \A j \in Slots \ {i} : slots'[j] = slots[j]
    BY <1>3, <1>5, <2>1 DEF TypesOK
  <2> HIDE DEF s, i, Count
  <2>7. ASSUME NEW j \in Slots, slots'[j].status # "Empty"
        PROVE  Count(slots'[j], times'[slots'[j].pkt])
    <3>1. CASE j = i
      BY <2>1, <2>5, <2>6, <3>1
    <3>2. CASE j # i
      BY <1>1, <2>1, <2>6, <2>7, <3>2
    <3> QED BY <3>1, <3>2
  <2>8. ASSUME NEW p \in Pkts
        PROVE  times'[p] <= 1 + NumRetrans /\ (p > put' => times'[p] = 0)
    <3>1. p > put + 1 => p > put
      BY <2>2 DEF Pkts
    <3> QED BY <1>2, <2>1, <3>1
  <2> QED BY <2>7, <2>8
<1>8. CASE Take /\ ~Abort /\ ~UNCHANGED <<slots, times, put>>
  <2> DEFINE i == index[Sender]
             s == slots[i]
             p == s.pkt
  <2>1. /\ slots' = [slots EXCEPT ![i] = Taken(s)] /\ s.status \in {"New", "Retrans"}
        /\ times' = [times EXCEPT ![p] = @ + 1] /\ put' = put
    BY <1>8 DEF Take, history
  <2>2. i \in Slots /\ s.status # "Empty" /\ p \in Pkts /\ p <= put
    BY <1>3, <1>4, <1>5, <2>1
  <2>3. /\ Count(s, times[p]) /\ times[p] \in Nat /\ s.retrans \in Nat /\ s.retrans <= NumRetrans
    BY <1>1, <1>3, <1>4, <2>2
  <2>4. /\ Taken(s).status = "Outbound" /\ Taken(s).pkt = p
        /\ Taken(s).retrans = IF s.status = "Retrans" THEN s.retrans - 1 ELSE s.retrans
    BY <1>3, <2>2 DEF Taken
  <2>5. slots'[i] = Taken(s) /\ \A j \in Slots \ {i} : slots'[j] = slots[j]
    BY <2>1, <2>2 DEF TypesOK
  <2>6. times'[p] = times[p] + 1 /\ \A q \in Pkts \ {p} : times'[q] = times[q]
    BY <2>1, <2>2 DEF TypesOK
  <2>7. \A j \in Slots \ {i} : slots[j].status # "Empty" => slots[j].pkt # p
    BY <2>2, OneSlot
  <2>8. Count(Taken(s), times[p] + 1) /\ times[p] + 1 <= 1 + NumRetrans
    <3>1. CASE s.status = "Retrans"
      <4>1. s.retrans > 0 /\ times[p] + s.retrans <= 1 + NumRetrans
        BY <2>3, <3>1
      <4>2. Taken(s).retrans = s.retrans - 1
        BY <2>4, <3>1
      <4>3. /\ times[p] + 1 <= 1 + NumRetrans /\ times[p] + 1 # 0
            /\ (times[p] + 1) + Taken(s).retrans <= 1 + NumRetrans
        BY <2>3, <4>1, <4>2, Sizes
      <4> QED BY <2>4, <4>3
    <3>2. CASE s.status # "Retrans"
      <4>1. times[p] = 0 /\ Taken(s).retrans = s.retrans
        BY <2>1, <2>3, <2>4, <3>2
      <4>2. /\ times[p] + 1 <= 1 + NumRetrans /\ times[p] + 1 # 0
            /\ (times[p] + 1) + Taken(s).retrans <= 1 + NumRetrans
        BY <2>3, <4>1, Sizes
      <4> QED BY <2>4, <4>2
    <3> QED BY <3>1, <3>2
  <2> HIDE DEF s, i, p, Count
  <2>9. ASSUME NEW j \in Slots, slots'[j].status # "Empty"
        PROVE  Count(slots'[j], times'[slots'[j].pkt])
    <3>1. CASE j = i
      BY <2>4, <2>5, <2>6, <2>8, <3>1
    <3>2. CASE j # i
      <4>1. slots'[j] = slots[j]
        BY <2>5, <3>2
      <4>2. slots[j].pkt \in Pkts \ {p}
        BY <1>4, <2>7, <2>9, <3>2, <4>1
      <4> QED BY <1>1, <2>6, <2>9, <4>1, <4>2
    <3> QED BY <3>1, <3>2
  <2>10. ASSUME NEW q \in Pkts
         PROVE  times'[q] <= 1 + NumRetrans /\ (q > put' => times'[q] = 0)
    <3>1. CASE q = p
      <4>1. ~(p > put)
        BY <1>3, <2>2, Sizes DEF Pkts
      <4> QED BY <2>1, <2>6, <2>8, <3>1, <4>1
    <3>2. CASE q # p
      BY <1>2, <2>1, <2>6, <3>2
    <3> QED BY <3>1, <3>2
  <2> QED BY <2>9, <2>10
<1>9. CASE Free
  <2>1. slots' = [slots EXCEPT ![index[Handler]] = EmptySlot] /\ times' = times /\ put' = put
    BY <1>9 DEF Free, history
  <2>2. \A j \in Slots : slots'[j].status # "Empty" => slots'[j] = slots[j]
    BY <2>1 DEF TypesOK, EmptySlot
  <2> HIDE DEF Count
  <2> QED BY <1>1, <1>2, <2>1, <2>2
<1>10. ASSUME NEW k \in Slots, Nacked(k) PROVE CountsOK'
  <2> DEFINE i == SlotOf((head + k) % PtSpace)
  <2>1. /\ slots[i].status = "Outbound" /\ times' = times /\ put' = put
        /\ slots[i].retrans > 0 /\ slots' = [slots EXCEPT ![i].status = "Retrans"]
    BY <1>10 DEF Nacked, Sent, history
  <2> HIDE DEF i
  <2>2. ASSUME NEW j \in Slots, slots'[j].status # "Empty"
        PROVE  Count(slots'[j], times'[slots'[j].pkt])
    <3>1. \/ slots'[j] = slots[j]
          \/ /\ slots[j].status = "Outbound" /\ slots[j].retrans > 0
             /\ slots'[j] = [slots[j] EXCEPT !.status = "Retrans"]
      BY <2>1 DEF TypesOK
    <3>2. CASE slots'[j] = slots[j]
      BY <1>1, <2>1, <2>2, <3>2
    <3>3. CASE /\ slots[j].status = "Outbound" /\ slots[j].retrans > 0
               /\ slots'[j] = [slots[j] EXCEPT !.status = "Retrans"]
      <4>1. Count(slots[j], times[slots[j].pkt]) /\ slots[j].pkt \in Pkts
            /\ times[slots[j].pkt] \in Nat /\ slots[j].retrans \in Nat
        BY <1>1, <1>3, <1>4, <3>3
      <4>2. /\ slots'[j].pkt = slots[j].pkt /\ slots'[j].status = "Retrans"
            /\ slots'[j].retrans = slots[j].retrans
        BY <1>3, <3>3
      <4> QED BY <2>1, <3>3, <4>1, <4>2
    <3> QED BY <3>1, <3>2, <3>3
  <2> QED BY <1>2, <2>1, <2>2 DEF CountsOK
<1>13. ASSUME NEW i \in Slots, DisableRetransmission(i) PROVE CountsOK'
  <2>1. /\ slots[i].status # "Retrans" /\ times' = times /\ put' = put
        /\ slots' = [slots EXCEPT ![i].retrans = 0]
    BY <1>13 DEF DisableRetransmission, history
  <2>2. ASSUME NEW j \in Slots, slots'[j].status # "Empty"
        PROVE  Count(slots'[j], times'[slots'[j].pkt])
    <3>1. \/ slots'[j] = slots[j]
          \/ /\ slots[j].status # "Retrans"
             /\ slots'[j] = [slots[j] EXCEPT !.retrans = 0]
      BY <2>1 DEF TypesOK
    <3>2. CASE slots'[j] = slots[j]
      BY <1>1, <2>1, <2>2, <3>2
    <3>3. CASE /\ slots[j].status # "Retrans"
               /\ slots'[j] = [slots[j] EXCEPT !.retrans = 0]
      <4>1. /\ slots'[j].pkt = slots[j].pkt /\ slots'[j].status = slots[j].status
            /\ slots'[j].retrans = 0
        BY <1>3, <3>3
      <4>2. Count(slots[j], times[slots[j].pkt]) /\ slots[j].pkt \in Pkts
            /\ times[slots[j].pkt] \in Nat /\ slots[j].retrans \in Nat
        BY <1>1, <1>3, <1>4, <2>2, <4>1
      <4>3. times[slots[j].pkt] + 0 <= 1 + NumRetrans
        BY <4>2, Sizes
      <4> QED BY <2>1, <3>3, <4>1, <4>2, <4>3
    <3> QED BY <3>1, <3>2, <3>3
  <2> QED BY <1>2, <2>1, <2>2 DEF CountsOK
<1>11. AcquireTailLock \/ AcquireCurrLock \/ AcquireHeadLock \/ Quiet \/ UNCHANGED vars
         => UNCHANGED <<slots, times, put>>
  BY DEF AcquireTailLock, AcquireCurrLock, AcquireHeadLock, Quiet, vars, history
<1>12. (\A i \in Slots : slots'[i].status # "Empty" => Count(slots'[i], times'[slots'[i].pkt]))
       /\ (\A p \in Pkts : times'[p] <= 1 + NumRetrans /\ (p > put' => times'[p] = 0))
         <=> CountsOK'
  BY DEF CountsOK
<1> HIDE DEF Count
<1> QED BY <1>6, <1>7, <1>8, <1>9, <1>10, <1>11, <1>12, <1>13, StepCases


-----------------------------------------------------------------------------
(* The order the packets are sent in *)

(* The last packet curr has passed. *)
Reach == Gone + Ahead(curr)

LEMMA PrefixStays ==
  ASSUME PrefixOK, Reach \in Int, Reach' \in Int, Reach' <= Reach, times' = times,
         pc'[Sender] = "take" <=> pc[Sender] = "take",
         pc[Sender] = "take" =>
           /\ index'[Sender] = index[Sender]
           /\ slots'[index[Sender]].pkt = slots[index[Sender]].pkt
           /\ slots[index[Sender]].status # "Empty" => slots'[index[Sender]].status # "Empty"
  PROVE  PrefixOK'
<1>1. ASSUME NEW q \in Pkts, q <= Reach'
      PROVE  times[q] > 0 \/ (pc'[Sender] = "take" /\ slots'[index'[Sender]].pkt = q)
  <2>1. q \in Int
    BY Sizes DEF Pkts
  <2>2. q <= Reach
    BY <1>1, <2>1
  <2>3. times[q] > 0 \/ (pc[Sender] = "take" /\ slots[index[Sender]].pkt = q)
    BY <2>2 DEF PrefixOK, Reach
  <2> QED BY <2>3
<1>2. pc'[Sender] = "take" =>
        /\ slots'[index'[Sender]].status # "Empty"
        /\ \A q \in 1..slots'[index'[Sender]].pkt - 1 : times[q] > 0
  BY DEF PrefixOK
<1>3. \A p \in Pkts : times[p] > 0 => \A q \in 1..p - 1 : times[q] > 0
  BY DEF PrefixOK
<1> QED BY <1>1, <1>2, <1>3 DEF PrefixOK, Reach

LEMMA InitPrefix == Init => PrefixOK
<1> SUFFICES ASSUME Init PROVE PrefixOK
  OBVIOUS
<1>1. head = curr /\ head = tail /\ TypesOK
  BY InitTypes DEF Init
<1>2. Ahead(curr) = 0 /\ Ahead(tail) = 0
  BY <1>1, Distances
<1>3. Gone + Ahead(curr) = 0
  <2>1. put = 0 /\ Storing = 0
    BY DEF Init, Storing, Threads
  <2> QED BY <1>2, <2>1 DEF Gone, Passed
<1>4. \A q \in Pkts : ~(q <= Gone + Ahead(curr)) /\ ~(times[q] > 0)
  BY <1>3, Sizes DEF Init, Pkts
<1>5. pc[Sender] # "take"
  BY DEF Init, Threads
<1> QED BY <1>4, <1>5 DEF PrefixOK

LEMMA PrefixStep == IInv /\ [Next]_vars => PrefixOK'
<1> SUFFICES ASSUME TypesOK, PlacesOK, PointersOK, RingOK, CountsOK, PrefixOK, [Next]_vars
             PROVE  PrefixOK'
  BY DEF IInv
<1> USE ThreadsDistinct
<1>0. /\ pc \in [Threads -> {"idle", "acquire", "sleep", "element", "store", "take",
                             "update", "free"}]
      /\ index \in [Threads -> Slots] /\ Reader \in Threads
      /\ Sender \in Threads /\ Handler \in Threads
      /\ \A t \in Threads : index[t] \in Slots
  BY DEF TypesOK, Threads
<1>1. /\ Ahead(curr) \in Nat /\ Ahead(tail) \in Nat /\ Ahead(curr) <= Ahead(tail)
      /\ Ahead(tail) <= BufSize
  BY Distances DEF PointersOK, PointersInOrder
<1>2. Gone \in Nat /\ Passed \in Nat /\ put \in Nat /\ Passed = Gone + Ahead(tail)
  BY GoneType
<1>3. Reach \in Nat /\ Reach \in Int
  BY <1>1, <1>2 DEF Reach
<1>4. /\ \A i \in Slots : slots[i] \in [pkt : 0..MaxPkts, seq : 0..PtSpace - 1,
                                        status : Statuses, retrans : 0..NumRetrans]
      /\ \A p \in Pkts : times[p] \in Nat
  BY DEF TypesOK
<1> USE DEF history, At, Goto
<1>5. CASE AcquireTailLock
  <2>1. /\ pc[Reader] = "element" /\ pc' = [SignalFill EXCEPT ![Reader] = "store"]
        /\ index' = [index EXCEPT ![Reader] = SlotOf(tail)] /\ times' = times
        /\ tail' = Next1(tail) /\ head' = head /\ curr' = curr /\ put' = put /\ slots' = slots
    BY <1>5 DEF AcquireTailLock
  <2>2. /\ pc'[Reader] = "store" /\ (pc'[Sender] = "take" <=> pc[Sender] = "take")
        /\ index'[Sender] = index[Sender]
    BY <1>0, <2>1, SignalledPlaces
  <2>3. Ahead(tail)' = Ahead(tail) + 1
    <3>1. Ahead(tail) < BufSize
      BY <2>1 DEF PointersOK
    <3> QED BY <2>1, <3>1, TailMoves
  <2>4. Passed' = Passed + 1
    BY <1>2, <2>1, <2>2 DEF Passed, Storing
  <2>5. Reach' = Reach
    <3>1. Reach' = (Passed' - Ahead(tail)') + Ahead(curr)' /\ Ahead(curr)' = Ahead(curr)
          /\ Reach = (Passed - Ahead(tail)) + Ahead(curr)
      BY <2>1 DEF Reach, Gone, Ahead
    <3> QED BY <1>1, <1>2, <2>3, <2>4, <3>1
  <2>6. Reach' <= Reach /\ Reach' \in Int
    BY <1>3, <2>5
  <2> QED BY <1>3, <2>1, <2>2, <2>6, PrefixStays
<1>6. CASE Store /\ ~Abort
  <2> DEFINE i == index[Reader]
  <2>1. /\ pc[Reader] = "store" /\ pc' = [pc EXCEPT ![Reader] = "idle"]
        /\ \E s : slots' = [slots EXCEPT ![i] = s]
        /\ put' = put + 1 /\ times' = times
        /\ UNCHANGED <<head, curr, tail, index>>
    BY <1>6 DEF Store, pointers
  <2>2. pc'[Reader] = "idle" /\ pc'[Sender] = pc[Sender]
    BY <1>0, <2>1
  <2>3. Passed' = Passed
    BY <1>2, <2>1, <2>2 DEF Passed, Storing
  <2>4. Reach' <= Reach /\ Reach' \in Int
    <3>1. Reach' = Reach
      BY <2>1, <2>3 DEF Reach, Gone, Ahead
    <3> QED BY <1>3, <3>1
  <2>5. pc[Sender] = "take" => index[Sender] # i
    BY <1>0, <2>1 DEF PlacesOK
  <2>6. pc[Sender] = "take" => slots'[index[Sender]] = slots[index[Sender]]
    BY <1>0, <2>1, <2>5 DEF TypesOK
  <2> QED BY <1>3, <2>1, <2>2, <2>4, <2>6, PrefixStays
<1>7. CASE AcquireCurrLock
  <2> DEFINE k == Ahead(curr)
  <2>1. /\ pc[Sender] = "element" /\ pc' = [pc EXCEPT ![Sender] = "take"]
        /\ index' = [index EXCEPT ![Sender] = SlotOf(curr)] /\ times' = times
        /\ curr' = Next1(curr) /\ head' = head /\ tail' = tail /\ put' = put /\ slots' = slots
        /\ elock[SlotOf(curr)] = NoThread
    BY <1>7 DEF AcquireCurrLock, CurrPassed, Unlocked
  <2>2. /\ pc'[Sender] = "take" /\ pc'[Reader] = pc[Reader]
        /\ index'[Sender] = SlotOf(curr)
    BY <1>0, <2>1
  <2>3. k < Ahead(tail)
    BY <2>1 DEF PointersOK
  <2>4. Ahead(curr)' = k + 1
    <3>1. Ahead(curr) < BufSize
      BY <1>1, <2>3, Sizes
    <3> QED BY <2>1, <3>1, CurrMoves
  <2>5. Gone' = Gone
    <3>1. Passed' = Passed
      BY <2>1, <2>2, PassedStays
    <3> QED BY <2>1, <3>1 DEF Gone, Ahead
  <2>6. k \in 0..Ahead(tail) - 1 /\ Place(k) = SlotOf(curr)
    BY <1>1, <2>3, Distances
  <2>7. pc[Reader] = "store" => k # Ahead(tail) - 1
    <3>1. pc[Reader] = "store" => /\ elock[index[Reader]] = Reader
                                  /\ index[Reader] = Place(Ahead(tail) - 1)
      BY <1>0 DEF PlacesOK, PointersOK
    <3> QED BY <2>1, <2>6, <3>1
  <2>8. PktAt(k) <= put
    <3>1. CASE pc[Reader] = "store"
      <4>1. Passed = put + 1 /\ k # Ahead(tail) - 1
        BY <2>7, <3>1 DEF Passed, Storing
      <4> QED BY <1>1, <1>2, <2>3, <4>1 DEF PktAt
    <3>2. CASE pc[Reader] # "store"
      <4>1. Passed = put
        BY <1>2, <3>2 DEF Passed, Storing
      <4> QED BY <1>1, <1>2, <2>3, <4>1 DEF PktAt
    <3> QED BY <3>1, <3>2
  <2>9. slots[SlotOf(curr)].status # "Empty" /\ slots[SlotOf(curr)].pkt = PktAt(k)
    BY <2>6, <2>8 DEF RingOK
  <2>10. PktAt(k) = Reach + 1 /\ Reach' = Reach + 1
    <3>1. PktAt(k) = Gone + k + 1 /\ Reach = Gone + k /\ Reach' = Gone' + Ahead(curr)'
      BY DEF PktAt, Reach
    <3> QED BY <1>1, <1>2, <2>4, <2>5, <3>1
  <2>11. \A q \in Pkts : q <= Reach => times[q] > 0
    BY <2>1 DEF PrefixOK, Reach
  <2>12. PktAt(k) \in Pkts
    <3>1. PktAt(k) \in 1..put
      BY <2>6, <2>9, Distances DEF RingOK
    <3> QED BY <3>1, Sizes DEF Pkts, TypesOK
  <2>13. ASSUME NEW q \in 1..PktAt(k) - 1 PROVE times[q] > 0
    <3>1. q \in Pkts /\ q <= Reach
      BY <1>3, <2>10, <2>12, <2>13, Sizes DEF Pkts
    <3> QED BY <2>11, <3>1
  <2>14. ASSUME NEW q \in Pkts, q <= Reach' PROVE times[q] > 0 \/ PktAt(k) = q
    <3>1. q <= Reach \/ q = Reach + 1
      BY <1>3, <2>10, <2>14, Sizes DEF Pkts
    <3> QED BY <2>10, <2>11, <3>1
  <2>15. \A p \in Pkts : times[p] > 0 => \A q \in 1..p - 1 : times[q] > 0
    BY DEF PrefixOK
  <2> HIDE DEF k
  <2> QED BY <2>1, <2>2, <2>9, <2>13, <2>14, <2>15 DEF PrefixOK, Reach
<1>8. CASE Take /\ ~Abort
  <2> DEFINE i == index[Sender]
             s == slots[i]
             p == s.pkt
  <2>1. /\ pc[Sender] = "take" /\ pc' = [pc EXCEPT ![Sender] = "idle"]
        /\ UNCHANGED <<head, curr, tail, index, put>>
        /\ \/ s.status \notin {"New", "Retrans"} /\ times' = times
           \/ times' = [times EXCEPT ![p] = @ + 1]
    BY <1>8 DEF Take, pointers
  <2>2. pc'[Sender] = "idle" /\ pc'[Reader] = pc[Reader]
    BY <1>0, <2>1
  <2>3. Reach' = Reach
    <3>1. Passed' = Passed
      BY <2>1, <2>2, PassedStays
    <3> QED BY <2>1, <3>1 DEF Reach, Gone, Ahead
  <2>4. s.status # "Empty" /\ \A q \in 1..p - 1 : times[q] > 0
    BY <2>1 DEF PrefixOK
  <2>5. p \in Pkts
    <3>1. p \in 1..put /\ put \in 0..MaxPkts
      BY <1>0, <2>4 DEF RingOK, TypesOK
    <3> QED BY <3>1, Sizes DEF Pkts
  <2>6. times'[p] > 0
    <3>1. CASE times' = times /\ s.status \notin {"New", "Retrans"}
      <4>1. times[p] # 0 /\ times[p] \in Nat
        BY <1>0, <1>4, <2>4, <2>5, <3>1 DEF CountsOK
      <4> QED BY <3>1, <4>1
    <3>2. CASE times' = [times EXCEPT ![p] = @ + 1]
      <4>1. times'[p] = times[p] + 1 /\ times[p] \in Nat
        BY <1>4, <2>5, <3>2 DEF TypesOK
      <4> QED BY <4>1
    <3> QED BY <2>1, <3>1, <3>2
  <2>7. \A q \in Pkts \ {p} : times'[q] = times[q]
    BY <2>1 DEF TypesOK
  <2> HIDE DEF i, s, p
  <2>8. \A q \in Pkts : times[q] > 0 => times'[q] > 0
    BY <2>6, <2>7
  <2>9. ASSUME NEW r \in Pkts, times'[r] > 0, NEW q \in 1..r - 1 PROVE times'[q] > 0
    <3>1. q \in Pkts
      BY Sizes DEF Pkts
    <3>2. CASE r = p
      BY <2>4, <2>8, <3>1, <3>2
    <3>3. CASE r # p
      BY <2>7, <2>8, <2>9, <3>1, <3>3 DEF PrefixOK
    <3> QED BY <3>2, <3>3
  <2>10. ASSUME NEW q \in Pkts, q <= Reach' PROVE times'[q] > 0
    <3>1. times[q] > 0 \/ p = q
      BY <2>3, <2>10 DEF PrefixOK, Reach, p, s, i
    <3> QED BY <2>6, <2>8, <3>1
  <2> QED BY <2>2, <2>9, <2>10 DEF PrefixOK, Reach
<1>9. CASE AcquireHeadLock
  <2>1. /\ pc[Handler] = "element" /\ pc' = [SignalEmpty EXCEPT ![Handler] = "free"]
        /\ index' = [index EXCEPT ![Handler] = SlotOf(head)] /\ times' = times
        /\ head' = Next1(head) /\ curr' = curr /\ tail' = tail /\ put' = put /\ slots' = slots
    BY <1>9 DEF AcquireHeadLock
  <2>2. /\ pc'[Sender] = pc[Sender] /\ index'[Sender] = index[Sender]
        /\ pc'[Reader] = "store" <=> pc[Reader] = "store"
    BY <1>0, <2>1, SignalledPlaces
  <2>3. Passed' = Passed
    BY <2>1, <2>2, PassedStays
  <2>4. Ahead(tail)' = Ahead(tail) - 1 /\ Ahead(curr)' = Ahead(curr) - 1
    <3>1. 0 < Ahead(curr)
      BY <2>1 DEF PointersOK
    <3> QED BY <1>1, <2>1, <3>1, HeadMoves
  <2>5. Reach' <= Reach /\ Reach' \in Int
    <3>1. Reach' = (Passed' - Ahead(tail)') + Ahead(curr)'
          /\ Reach = (Passed - Ahead(tail)) + Ahead(curr)
      BY DEF Reach, Gone
    <3>2. Reach' = Reach
      BY <1>1, <1>2, <2>3, <2>4, <3>1
    <3> QED BY <1>3, <3>2
  <2> QED BY <1>3, <2>1, <2>2, <2>5, PrefixStays
<1>10. CASE Free
  <2> DEFINE i == index[Handler]
  <2>1. /\ pc[Handler] = "free" /\ pc' = [pc EXCEPT ![Handler] = "idle"]
        /\ slots' = [slots EXCEPT ![i] = EmptySlot] /\ times' = times
        /\ UNCHANGED <<head, curr, tail, index, put>>
    BY <1>10 DEF Free, pointers
  <2>2. pc'[Sender] = pc[Sender] /\ pc'[Reader] = pc[Reader]
    BY <1>0, <2>1
  <2>3. Reach' <= Reach /\ Reach' \in Int
    <3>1. Passed' = Passed
      BY <2>1, <2>2, PassedStays
    <3>2. Reach' = Reach
      BY <2>1, <3>1 DEF Reach, Gone, Ahead
    <3> QED BY <1>3, <3>2
  <2>4. pc[Sender] = "take" => index[Sender] # i
    BY <1>0, <2>1 DEF PlacesOK
  <2>5. pc[Sender] = "take" => slots'[index[Sender]] = slots[index[Sender]]
    BY <1>0, <2>1, <2>4 DEF TypesOK
  <2> QED BY <1>3, <2>1, <2>2, <2>3, <2>5, PrefixStays
<1>11. ASSUME NEW k \in Slots, Nacked(k) PROVE PrefixOK'
  <2> DEFINE i == SlotOf((head + k) % PtSpace)
  <2>1. /\ UNCHANGED <<head, tail, pc, index, put>> /\ times' = times
        /\ slots' = [slots EXCEPT ![i].status = "Retrans"]
        /\ curr' = curr \/ (k < Ahead(curr) /\ curr' = (head + k) % PtSpace)
    BY <1>11 DEF Nacked, pointers
  <2>2. ASSUME NEW j \in Slots
        PROVE  /\ slots'[j].pkt = slots[j].pkt
               /\ slots[j].status # "Empty" => slots'[j].status # "Empty"
    <3>1. slots'[j] = slots[j] \/ slots'[j] = [slots[j] EXCEPT !.status = "Retrans"]
      BY <2>1 DEF TypesOK
    <3> QED BY <1>4, <3>1
  <2>3. Ahead(curr)' \in Nat /\ Ahead(curr)' <= Ahead(curr)
    <3>1. CASE curr' = curr
      <4>1. Ahead(curr)' = Ahead(curr)
        BY <2>1, <3>1 DEF Ahead
      <4> QED BY <1>1, <4>1
    <3>2. CASE k < Ahead(curr) /\ curr' = (head + k) % PtSpace
      <4>1. k \in Pointer /\ k \in Nat
        BY Sizes DEF Slots, Pointer
      <4>2. Ahead(curr)' = k
        BY <2>1, <3>2, <4>1, CurrGoesBack
      <4> QED BY <1>1, <3>2, <4>1, <4>2
    <3> QED BY <2>1, <3>1, <3>2
  <2>4. Gone' = Gone
    <3>1. Passed' = Passed
      BY <2>1, PassedStays
    <3> QED BY <2>1, <3>1 DEF Gone, Ahead
  <2>5. Reach' <= Reach /\ Reach' \in Int
    <3>1. Reach' = Gone' + Ahead(curr)' /\ Reach = Gone + Ahead(curr)
      BY DEF Reach
    <3> QED BY <1>1, <1>2, <2>3, <2>4, <3>1
  <2> HIDE DEF i
  <2> QED BY <1>0, <1>3, <2>1, <2>2, <2>5, PrefixStays
<1>14. ASSUME NEW i \in Slots, DisableRetransmission(i) PROVE PrefixOK'
  <2>1. /\ UNCHANGED <<head, curr, tail, pc, index, put>> /\ times' = times
        /\ slots' = [slots EXCEPT ![i].retrans = 0]
    BY <1>14 DEF DisableRetransmission, pointers
  <2>2. ASSUME NEW j \in Slots
        PROVE  slots'[j].pkt = slots[j].pkt /\ slots'[j].status = slots[j].status
    <3>1. slots'[j] = slots[j] \/ slots'[j] = [slots[j] EXCEPT !.retrans = 0]
      BY <2>1 DEF TypesOK
    <3> QED BY <1>4, <3>1
  <2>3. Passed' = Passed
    BY <2>1, PassedStays
  <2>4. Reach' <= Reach /\ Reach' \in Int
    <3>1. Reach' = Reach
      BY <2>1, <2>3 DEF Reach, Gone, Ahead
    <3> QED BY <1>3, <3>1
  <2> QED BY <1>0, <1>3, <2>1, <2>2, <2>4, PrefixStays
<1>12. CASE Quiet
  <2>1. Reach' <= Reach /\ Reach' \in Int
    <3>1. Reach' = Reach
      BY <1>12 DEF Quiet, Reach, Gone, Ahead
    <3> QED BY <1>3, <3>1
  <2> QED BY <1>3, <1>12, <2>1, PrefixStays DEF Quiet
<1>13. CASE UNCHANGED vars
  <2>1. Quiet
    BY <1>13 DEF Quiet, vars, pointers, Passed, Storing
  <2> QED BY <1>12, <2>1
<1> QED BY <1>5, <1>6, <1>7, <1>8, <1>9, <1>10, <1>11, <1>12, <1>13, <1>14, StepCases


-----------------------------------------------------------------------------
(* Before a number wraps *)

LEMMA Seq2IndOf ==
  ASSUME NEW s \in Pointer
  PROVE  Seq2Ind(s) \in Slots /\ (s >= 1 => Seq2Ind(s) = (s - 1) % BufSize)
<1>1. s \in Int /\ s - 1 \in Int
  BY Sizes DEF Pointer
<1>2. (s - 1) % PtSpace \in 0..PtSpace - 1
  BY <1>1, Sizes, ModRange
<1>3. ((s - 1) % PtSpace) % BufSize \in 0..BufSize - 1
  BY <1>2, Sizes, ModRange
<1>4. s >= 1 => (s - 1) % PtSpace = s - 1
  <2>1. s >= 1 => s - 1 \in Pointer
    BY Sizes DEF Pointer
  <2>2. 0 \in Pointer /\ s - 1 - 0 = s - 1
    BY <1>1, Sizes DEF Pointer
  <2>3. ASSUME s >= 1 PROVE (s - 1 - 0) % PtSpace = s - 1
    <3> DEFINE a == s - 1
    <3>1. a \in Pointer
      BY <2>1, <2>3
    <3>2. -PtSpace <= a /\ a < 2 * PtSpace /\ a \in Int /\ ~(a < 0) /\ a < PtSpace
      BY <3>1, Sizes DEF Pointer
    <3> HIDE DEF a
    <3>3. a % PtSpace = a
      BY <3>2, Sizes, ModOnce
    <3> QED BY <2>2, <3>3 DEF a
  <2> QED BY <2>2, <2>3
<1> QED BY <1>3, <1>4 DEF Seq2Ind, Slots

(* The parts of NumberedOK. *)
TailExact == tail = IF Passed = PtSpace THEN 0 ELSE Passed
SeqExact == pc[Reader] # "idle" => seq = IF put + 1 = PtSpace THEN 0 ELSE put + 1
SlotsExact ==
  \A i \in Slots : slots[i].status # "Empty" =>
    slots[i].seq = slots[i].pkt /\ i = (slots[i].pkt - 1) % BufSize
BatchOutbound ==
  \A k \in 1..Len(batch) :
    slots[Seq2Ind(batch[k])].status = "Outbound" /\ slots[Seq2Ind(batch[k])].seq = batch[k]
BatchApart ==
  \A k \in 1..Len(batch) :
    /\ pc[Handler] \in {"acquire", "element"} => batch[k] # slots[Place(0)].seq
    /\ pc[Handler] = "free" => batch[k] # slots[index[Handler]].seq

LEMMA NumberedParts ==
  NumberedOK <=> (put < PtSpace => /\ TailExact /\ SeqExact /\ SlotsExact
                                   /\ BatchOutbound /\ BatchApart /\ ~aborted)
  BY DEF NumberedOK, TailExact, SeqExact, SlotsExact, BatchOutbound, BatchApart

(* The pointers are then the numbers of packets themselves. *)
LEMMA NotWrapped ==
  ASSUME TypesOK, PlacesOK, PointersOK, put < PtSpace, TailExact
  PROVE  /\ head = Gone /\ Passed <= PtSpace
         /\ \A k \in 0..Ahead(tail) - 1 : Place(k) = (PktAt(k) - 1) % BufSize
<1>1. head \in Pointer /\ tail \in Pointer /\ Ahead(tail) \in Nat
  BY Pointers, Distances
<1>2. /\ Gone \in Nat /\ Passed \in Nat /\ put \in Nat /\ Passed = Gone + Ahead(tail)
      /\ put <= Passed /\ Passed <= put + 1
  BY GoneType
<1>3. Ahead(tail) = IF head <= tail THEN tail - head ELSE tail - head + PtSpace
  BY <1>1, DistanceOf DEF Ahead
<1>4. Passed <= PtSpace
  BY <1>2, Sizes
<1>5. head = Gone
  <2>1. CASE Passed = PtSpace
    <3>1. tail = 0
      BY <2>1 DEF TailExact
    <3>2. Ahead(tail) > 0
      <4>1. pc[Reader] = "store"
        BY <1>2, <2>1 DEF Passed, Storing
      <4>2. Ahead(curr) < Ahead(tail) /\ Ahead(curr) \in Nat
        BY <4>1, Distances DEF PointersOK
      <4> QED BY <1>1, <4>2
    <3> QED BY <1>1, <1>2, <1>3, <2>1, <3>1, <3>2, Sizes DEF Pointer
  <2>2. CASE Passed # PtSpace
    <3>1. tail = Passed
      BY <2>2 DEF TailExact
    <3>2. CASE head <= tail
      BY <1>1, <1>2, <1>3, <3>1, <3>2 DEF Pointer
    <3>3. CASE ~(head <= tail)
      <4>1. Ahead(tail) = tail - head + PtSpace
        BY <1>3, <3>3
      <4>2. head < PtSpace /\ head \in Int
        BY <1>1, Sizes DEF Pointer
      <4> QED BY <1>1, <1>2, <3>1, <4>1, <4>2, Sizes
    <3> QED BY <3>2, <3>3
  <2> QED BY <2>1, <2>2
<1>6. ASSUME NEW k \in 0..Ahead(tail) - 1 PROVE Place(k) = (PktAt(k) - 1) % BufSize
  <2>1. k \in Pointer /\ k \in Nat
    BY PlaceTypes
  <2>2. (head + k) % PtSpace = IF head + k < PtSpace THEN head + k ELSE head + k - PtSpace
    BY <1>1, <2>1, PointerAt
  <2>3. head + k < PtSpace
    BY <1>1, <1>2, <1>4, <1>5, <2>1, Sizes
  <2>4. PktAt(k) - 1 = head + k
    BY <1>2, <1>5, <2>1 DEF PktAt
  <2> QED BY <2>2, <2>3, <2>4 DEF Place, SlotOf
<1> QED BY <1>4, <1>5, <1>6

(* The slot Reader has locked is empty. *)
LEMMA TailSlot ==
  ASSUME TypesOK, PlacesOK, PointersOK, RingOK, put < PtSpace, TailExact, SlotsExact,
         pc[Reader] = "store"
  PROVE  /\ slots[index[Reader]].status = "Empty"
         /\ index[Reader] = put % BufSize
<1> DEFINE i == index[Reader]
           last == Ahead(tail) - 1
<1>1. /\ Gone \in Nat /\ Passed \in Nat /\ put \in Nat /\ Passed = Gone + Ahead(tail)
      /\ Passed = put + 1 /\ Ahead(tail) \in Nat /\ Ahead(tail) <= BufSize
  BY GoneType, Distances DEF Storing, PointersOK, PointersInOrder
<1>2. i = Place(last) /\ last \in 0..Ahead(tail) - 1
  <2>1. Ahead(curr) < Ahead(tail) /\ Ahead(curr) \in Nat /\ i = Place(last)
    BY Distances DEF PointersOK
  <2> QED BY <1>1, <2>1
<1>3. PktAt(last) - 1 = put
  BY <1>1, <1>2 DEF PktAt
<1>4. i = put % BufSize
  BY <1>2, <1>3, NotWrapped
<1>5. i \in Slots
  BY DEF TypesOK, Threads
<1>6. ASSUME slots[i].status # "Empty" PROVE FALSE
  <2> DEFINE p == slots[i].pkt
  <2>1. p \in 1..put /\ i = (p - 1) % BufSize
    BY <1>5, <1>6 DEF RingOK, SlotsExact
  <2>2. ~(pc[Handler] = "free" /\ i = index[Handler])
    BY ThreadsDistinct DEF PlacesOK, Threads
  <2>3. PICK k \in 0..Ahead(tail) - 1 : i = Place(k) /\ p = PktAt(k)
    BY <1>5, <1>6, <2>2 DEF RingOK
  <2>4. p > Gone
    BY <2>3, PlaceTypes
  <2> HIDE DEF p
  <2>5. p - 1 \in Nat /\ p - 1 < put /\ put - (p - 1) < BufSize
    BY <1>1, <2>1, <2>4, Sizes
  <2>6. (p - 1) % BufSize # put % BufSize
    BY <1>1, <2>5, Sizes, ModDistinct
  <2> QED BY <1>4, <2>1, <2>6
<1> QED BY <1>4, <1>6


LEMMA InitNumbered == Init => NumberedOK
<1> SUFFICES ASSUME Init PROVE NumberedOK
  OBVIOUS
<1>1. Passed = 0 /\ tail = 0 /\ ~aborted /\ pc[Reader] = "idle" /\ PtSpace # 0
  <2>1. pc[Reader] = "idle" /\ put = 0
    BY DEF Init, Threads
  <2> QED BY <2>1, Sizes DEF Init, Passed, Storing
<1>2. \A i \in Slots : slots[i].status = "Empty"
  BY DEF Init, EmptySlot
<1>3. 1..Len(batch) = {}
  BY DEF Init
<1>4. TailExact /\ SeqExact /\ SlotsExact
  BY <1>1, <1>2 DEF TailExact, SeqExact, SlotsExact
<1>5. BatchOutbound /\ BatchApart
  BY <1>3 DEF BatchOutbound, BatchApart
<1> QED BY <1>1, <1>4, <1>5, NumberedParts

(* The places and the packets in hand stay apart from the batch. *)
LEMMA ApartStays ==
  ASSUME BatchApart, head' = head, slots' = slots, batch' = batch,
         pc'[Handler] = "free" =>
           pc[Handler] = "free" /\ index'[Handler] = index[Handler],
         pc'[Handler] \in {"acquire", "element"} => pc[Handler] \in {"acquire", "element"}
  PROVE  BatchApart' /\ (BatchOutbound => BatchOutbound')
<1>1. Place(0)' = Place(0)
  BY DEF Place
<1> QED BY <1>1 DEF BatchApart, BatchOutbound, Seq2Ind

LEMMA NumberedStays ==
  ASSUME TailExact, SeqExact, SlotsExact, BatchOutbound, BatchApart, ~aborted,
         UNCHANGED <<head, tail, slots, batch, put, aborted>>, Passed' = Passed,
         pc'[Reader] # "idle" => pc[Reader] # "idle" /\ seq' = seq,
         pc'[Handler] = "free" =>
           pc[Handler] = "free" /\ index'[Handler] = index[Handler],
         pc'[Handler] \in {"acquire", "element"} => pc[Handler] \in {"acquire", "element"}
  PROVE  NumberedOK'
<1>1. TailExact' /\ SeqExact'
  BY DEF TailExact, SeqExact
<1>2. SlotsExact'
  BY DEF SlotsExact
<1>3. BatchOutbound' /\ BatchApart'
  BY ApartStays
<1> QED BY <1>1, <1>2, <1>3
        DEF NumberedOK, TailExact, SeqExact, SlotsExact, BatchOutbound, BatchApart

LEMMA BatchSlots ==
  ASSUME TypesOK, NEW k \in 1..Len(batch)
  PROVE  batch[k] \in Pointer /\ Seq2Ind(batch[k]) \in Slots
<1>1. batch[k] \in Pointer
  <2>1. batch \in Seq(Pointer)
    BY DEF TypesOK, Pointer
  <2> QED BY <2>1, ElementOfSeq
<1> QED BY <1>1, Seq2IndOf

LEMMA NumberedStep == IInv /\ [Next]_vars => NumberedOK'
<1> SUFFICES ASSUME TypesOK, PlacesOK, PointersOK, RingOK, CountsOK, NumberedOK,
                    [Next]_vars, put' < PtSpace
             PROVE  NumberedOK'
  BY DEF IInv, NumberedOK
<1> USE ThreadsDistinct
<1>0. /\ pc \in [Threads -> {"idle", "acquire", "sleep", "element", "store", "take",
                             "update", "free"}]
      /\ index \in [Threads -> Slots] /\ Reader \in Threads
      /\ Sender \in Threads /\ Handler \in Threads
      /\ \A t \in Threads : index[t] \in Slots
      /\ \A i \in Slots : slots[i] \in [pkt : 0..MaxPkts, seq : 0..PtSpace - 1,
                                        status : Statuses, retrans : 0..NumRetrans]
      /\ batch \in Seq(Pointer) /\ Len(batch) \in Nat
  BY LenProperties DEF TypesOK, Threads, Pointer
<1>1. put \in Nat /\ Passed \in Nat
  BY GoneType
<1>2. put' = put \/ (put' = put + 1 /\ Store /\ ~Abort)
  BY StepCases DEF Store, AcquireTailLock, AcquireCurrLock, Take, AcquireHeadLock, Free,
    Nacked, DisableRetransmission, Quiet, history, vars, Abort
<1>3. put < PtSpace
  BY <1>1, <1>2, Sizes
<1>4. TailExact /\ SeqExact /\ SlotsExact /\ BatchOutbound /\ BatchApart /\ ~aborted
  BY <1>3, NumberedParts
<1>5. ASSUME TailExact', SeqExact', SlotsExact', BatchOutbound', BatchApart', ~aborted'
      PROVE  NumberedOK'
  BY <1>5 DEF NumberedOK, TailExact, SeqExact, SlotsExact, BatchOutbound, BatchApart
<1>6. Place(0) = SlotOf(head) /\ Place(0) \in Slots
  <2>1. 0 \in Pointer
    BY Sizes DEF Pointer
  <2> QED BY <2>1, Distances
<1> USE DEF history, pointers, At, Goto
<1>7. CASE EnqueuePkt
  <2>1. /\ pc[Reader] = "idle" /\ pc' = [pc EXCEPT ![Reader] = "acquire"]
        /\ seq' = Next1(tail)
        /\ UNCHANGED <<head, tail, slots, batch, put, aborted, index>>
    BY <1>7 DEF EnqueuePkt, SeqRead
  <2>2. pc'[Reader] = "acquire" /\ pc'[Handler] = pc[Handler]
    BY <1>0, <2>1
  <2>3. Passed = put /\ Passed' = put
    BY <1>1, <2>1, <2>2 DEF Passed, Storing
  <2>4. tail = put
    <3>1. put # PtSpace
      BY <1>1, <1>3, Sizes
    <3> QED BY <1>4, <2>3, <3>1 DEF TailExact
  <2>5. seq' = IF put + 1 = PtSpace THEN 0 ELSE put + 1
    BY <2>1, <2>4, Pointers, NextPointer
  <2>6. TailExact' /\ SeqExact' /\ SlotsExact'
    BY <1>4, <2>1, <2>3, <2>5 DEF TailExact, SeqExact, SlotsExact
  <2>7. BatchApart' /\ BatchOutbound'
    BY <1>4, <2>1, <2>2, ApartStays
  <2> QED BY <1>4, <1>5, <2>1, <2>6, <2>7
<1>8. CASE EnterOrSleep(Reader, IsFull)
  <2>1. /\ pc[Reader] = "acquire" /\ pc'[Reader] \in {"sleep", "element"}
        /\ pc'[Handler] = pc[Handler]
        /\ UNCHANGED <<head, tail, slots, batch, put, aborted, index, seq>>
    BY <1>0, <1>8 DEF EnterOrSleep
  <2>2. Passed' = Passed
    BY <2>1, PassedStays
  <2> QED BY <1>4, <2>1, <2>2, NumberedStays
<1>9. CASE AcquireTailLock
  <2>1. /\ pc[Reader] = "element" /\ pc' = [SignalFill EXCEPT ![Reader] = "store"]
        /\ index' = [index EXCEPT ![Reader] = SlotOf(tail)]
        /\ tail' = Next1(tail) /\ UNCHANGED <<head, slots, batch, put, aborted, seq>>
    BY <1>9 DEF AcquireTailLock
  <2>2. /\ pc'[Reader] = "store" /\ pc'[Handler] = pc[Handler]
        /\ index'[Handler] = index[Handler]
    BY <1>0, <2>1, SignalledPlaces
  <2>3. Passed = put /\ Passed' = put + 1
    BY <1>1, <2>1, <2>2 DEF Passed, Storing
  <2>4. tail = put
    <3>1. put # PtSpace
      BY <1>1, <1>3, Sizes
    <3> QED BY <1>4, <2>3, <3>1 DEF TailExact
  <2>5. TailExact'
    BY <2>1, <2>3, <2>4, Pointers, NextPointer DEF TailExact
  <2>6. SeqExact' /\ SlotsExact'
    BY <1>4, <2>1, <2>2 DEF SeqExact, SlotsExact
  <2>7. BatchApart' /\ BatchOutbound'
    BY <1>4, <2>1, <2>2, ApartStays
  <2> QED BY <1>4, <1>5, <2>1, <2>5, <2>6, <2>7
<1>10. CASE Store
  <2> DEFINE i == index[Reader]
             s == [pkt |-> put', seq |-> seq, status |-> "New", retrans |-> NumRetrans]
  <2>1. slots[i].status = "Empty" /\ i = put % BufSize /\ i \in Slots
    <3>1. pc[Reader] = "store"
      BY <1>10 DEF Store
    <3> QED BY <1>0, <1>3, <1>4, <3>1, TailSlot
  <2>2. /\ pc[Reader] = "store" /\ pc' = [pc EXCEPT ![Reader] = "idle"]
        /\ put' = put + 1 /\ slots' = [slots EXCEPT ![i] = s]
        /\ UNCHANGED <<head, curr, tail, index, seq, batch, aborted>>
    BY <1>10, <2>1 DEF Store
  <2>3. pc'[Reader] = "idle" /\ pc'[Handler] = pc[Handler]
    BY <1>0, <2>2
  <2>4. Passed' = Passed
    BY <1>1, <2>2, <2>3 DEF Passed, Storing
  <2>5. s.seq = seq /\ seq = put + 1 /\ s.pkt = put + 1
    <3>1. put + 1 # PtSpace
      BY <1>1, <2>2, Sizes
    <3> QED BY <1>1, <1>4, <2>2, <3>1 DEF SeqExact
  <2>6. slots'[i] = s /\ \A j \in Slots \ {i} : slots'[j] = slots[j]
    BY <2>1, <2>2 DEF TypesOK
  <2> HIDE DEF i, s
  <2>7. TailExact' /\ SeqExact'
    BY <1>4, <2>2, <2>3, <2>4 DEF TailExact, SeqExact
  <2>8. SlotsExact'
    <3> SUFFICES ASSUME NEW j \in Slots, slots'[j].status # "Empty"
                 PROVE  slots'[j].seq = slots'[j].pkt /\ j = (slots'[j].pkt - 1) % BufSize
      BY DEF SlotsExact
    <3>1. CASE j = i
      <4>1. slots'[j].seq = put + 1 /\ slots'[j].pkt = put + 1
        BY <2>5, <2>6, <3>1
      <4>2. slots'[j].pkt - 1 = put
        BY <1>1, <4>1
      <4> QED BY <2>1, <3>1, <4>1, <4>2
    <3>2. CASE j # i
      BY <1>4, <2>6, <3>2 DEF SlotsExact
    <3> QED BY <3>1, <3>2
  <2>9. BatchOutbound'
    <3> SUFFICES ASSUME NEW k \in 1..Len(batch)
                 PROVE  /\ slots'[Seq2Ind(batch[k])].status = "Outbound"
                        /\ slots'[Seq2Ind(batch[k])].seq = batch[k]
      BY <2>2 DEF BatchOutbound, Seq2Ind
    <3>1. /\ slots[Seq2Ind(batch[k])].status = "Outbound"
          /\ slots[Seq2Ind(batch[k])].seq = batch[k]
      BY <1>4 DEF BatchOutbound
    <3>2. Seq2Ind(batch[k]) \in Slots /\ Seq2Ind(batch[k]) # i
      BY <2>1, <3>1, BatchSlots
    <3> QED BY <2>6, <3>1, <3>2
  <2>10. BatchApart'
    <3>1. Place(0)' = Place(0)
      BY <2>2 DEF Place
    <3>2. pc[Handler] \in {"acquire", "element"} => slots'[Place(0)] = slots[Place(0)]
      <4>1. pc[Handler] \in {"acquire", "element"} => slots[Place(0)].status = "Outbound"
        BY DEF RingOK
      <4> QED BY <1>6, <2>1, <2>6, <4>1
    <3>3. pc[Handler] = "free" => slots'[index[Handler]] = slots[index[Handler]]
      <4>1. pc[Handler] = "free" => slots[index[Handler]].status = "Outbound"
        BY DEF RingOK
      <4> QED BY <1>0, <2>1, <2>6, <4>1
    <3> QED BY <1>4, <2>2, <2>3, <3>1, <3>2, <3>3 DEF BatchApart
  <2> QED BY <1>4, <1>5, <2>2, <2>7, <2>8, <2>9, <2>10
<1>11. CASE SpuriousWakeup(Reader)
  <2>1. /\ pc[Reader] = "sleep" /\ pc'[Reader] = "acquire" /\ pc'[Handler] = pc[Handler]
        /\ UNCHANGED <<head, tail, slots, batch, put, aborted, index, seq>>
    BY <1>0, <1>11 DEF SpuriousWakeup
  <2>2. Passed' = Passed
    BY <2>1, PassedStays
  <2> QED BY <1>4, <2>1, <2>2, NumberedStays
<1>12. CASE \/ DequeuePkt \/ UpdateBatchSendTime \/ Timeout
            \/ EnterOrSleep(Sender, IsEmpty) \/ SpuriousWakeup(Sender)
  <2>1. /\ \E l : pc' = [pc EXCEPT ![Sender] = l]
        /\ UNCHANGED <<head, tail, slots, batch, put, aborted, index, seq>>
    BY <1>12 DEF DequeuePkt, UpdateBatchSendTime, Timeout, EnterOrSleep, SpuriousWakeup
  <2>2. pc'[Reader] = pc[Reader] /\ pc'[Handler] = pc[Handler]
    BY <1>0, <2>1
  <2>3. Passed' = Passed
    BY <2>1, <2>2, PassedStays
  <2> QED BY <1>4, <2>1, <2>2, <2>3, NumberedStays
<1>13. CASE AcquireCurrLock
  <2>1. /\ pc' = [pc EXCEPT ![Sender] = "take"] /\ pc[Sender] = "element"
        /\ index' = [index EXCEPT ![Sender] = SlotOf(curr)]
        /\ UNCHANGED <<head, tail, slots, batch, put, aborted, seq>>
    BY <1>13 DEF AcquireCurrLock
  <2>2. /\ pc'[Reader] = pc[Reader] /\ pc'[Handler] = pc[Handler]
        /\ index'[Handler] = index[Handler]
    BY <1>0, <2>1
  <2>3. Passed' = Passed
    BY <2>1, <2>2, PassedStays
  <2> QED BY <1>4, <2>1, <2>2, <2>3, NumberedStays

<1>14. CASE Take
  <2> DEFINE i == index[Sender]
             s == slots[i]
  <2>1. pc[Sender] = "take" /\ i \in Slots
    BY <1>0, <1>14 DEF Take
  <2>2. CASE s.status \notin {"New", "Retrans"}
    <3>1. /\ pc' = [pc EXCEPT ![Sender] = "idle"]
          /\ UNCHANGED <<head, tail, slots, batch, put, aborted, seq, index>>
      BY <1>14, <2>2 DEF Take
    <3>2. pc'[Reader] = pc[Reader] /\ pc'[Handler] = pc[Handler]
      BY <1>0, <3>1
    <3>3. Passed' = Passed
      BY <3>1, <3>2, PassedStays
    <3> QED BY <1>4, <3>1, <3>2, <3>3, NumberedStays
  <2>3. CASE s.status \in {"New", "Retrans"}
    <3>1. s.seq = s.pkt /\ i = (s.pkt - 1) % BufSize /\ s.pkt \in 1..put
      BY <1>4, <2>1, <2>3 DEF SlotsExact, RingOK
    <3>2. s.seq # 0 /\ ~(s.status = "Retrans" /\ s.retrans = 0)
      <4>1. s.pkt # 0
        BY <3>1
      <4>2. s.status = "Retrans" => s.retrans > 0
        BY <2>1, <2>3 DEF CountsOK
      <4> QED BY <3>1, <4>1, <4>2
    <3>3. /\ pc' = [pc EXCEPT ![Sender] = "idle"]
          /\ slots' = [slots EXCEPT ![i] = Taken(s)] /\ batch' = Append(batch, s.seq)
          /\ UNCHANGED <<head, tail, put, aborted, seq, index>>
      BY <1>14, <2>3, <3>2 DEF Take
    <3>4. pc'[Reader] = pc[Reader] /\ pc'[Handler] = pc[Handler]
      BY <1>0, <3>3
    <3>5. Passed' = Passed
      BY <3>3, <3>4, PassedStays
    <3>6. /\ Taken(s).seq = s.seq /\ Taken(s).pkt = s.pkt /\ Taken(s).status = "Outbound"
          /\ slots'[i] = Taken(s) /\ \A j \in Slots \ {i} : slots'[j] = slots[j]
      BY <1>0, <2>1, <3>3 DEF Taken, TypesOK
    <3>7. Seq2Ind(s.seq) = i /\ s.seq \in Pointer
      <4>1. s.seq \in Pointer
        BY <1>0, <2>1 DEF Pointer
      <4>2. s.seq >= 1
        BY <3>1
      <4> QED BY <3>1, <4>1, <4>2, Seq2IndOf
    <3>8. /\ Len(batch') = Len(batch) + 1 /\ batch'[Len(batch) + 1] = s.seq
          /\ \A k \in 1..Len(batch) : batch'[k] = batch[k]
      BY <1>0, <3>3, <3>7, AppendProperties
    <3>9. \A k \in 1..Len(batch') : k \in 1..Len(batch) \/ k = Len(batch) + 1
      BY <1>0, <3>8
    <3>10. \A j \in Slots \ {i} : slots[j].status # "Empty" => slots[j].seq # s.seq
      <4> SUFFICES ASSUME NEW j \in Slots \ {i}, slots[j].status # "Empty"
                   PROVE  slots[j].seq # s.seq
        OBVIOUS
      <4>1. slots[j].pkt # s.pkt
        BY <2>1, <2>3, OneSlot
      <4>2. slots[j].seq = slots[j].pkt
        BY <1>4 DEF SlotsExact
      <4> QED BY <3>1, <4>1, <4>2
    <3>11. s.status # "Empty" /\ s.status # "Outbound"
      BY <2>3
    <3>12. /\ pc[Handler] \in {"acquire", "element"} => slots[Place(0)].status = "Outbound"
           /\ pc[Handler] = "free" => slots[index[Handler]].status = "Outbound"
      BY DEF RingOK
    <3>13. Place(0)' = Place(0)
      BY <3>3 DEF Place
    <3>14. /\ pc[Handler] \in {"acquire", "element"} =>
                slots[Place(0)].seq # s.seq /\ slots'[Place(0)] = slots[Place(0)]
           /\ pc[Handler] = "free" => /\ slots[index[Handler]].seq # s.seq
                                      /\ slots'[index[Handler]] = slots[index[Handler]]
      <4>1. ASSUME NEW j \in Slots, slots[j].status = "Outbound"
            PROVE  slots[j].seq # s.seq /\ slots'[j] = slots[j]
        <5>1. j # i
          BY <3>11, <4>1
        <5> QED BY <3>6, <3>10, <4>1, <5>1
      <4> QED BY <1>0, <1>6, <3>12, <4>1
    <3>15. /\ slots'[i].seq = s.seq /\ slots'[i].pkt = s.pkt /\ slots'[i].status = "Outbound"
      BY <3>6
    <3>16. TailExact' /\ SeqExact'
      BY <1>4, <3>3, <3>4, <3>5 DEF TailExact, SeqExact
    <3> HIDE DEF s, i
    <3>17. SlotsExact'
      <4> SUFFICES ASSUME NEW j \in Slots, slots'[j].status # "Empty"
                   PROVE  slots'[j].seq = slots'[j].pkt /\ j = (slots'[j].pkt - 1) % BufSize
        BY DEF SlotsExact
      <4>1. CASE j = i
        BY <3>1, <3>15, <4>1
      <4>2. CASE j # i
        BY <1>4, <3>6, <4>2 DEF SlotsExact
      <4> QED BY <4>1, <4>2
    <3>18. BatchOutbound'
      <4> SUFFICES ASSUME NEW k \in 1..Len(batch')
                   PROVE  /\ slots'[Seq2Ind(batch'[k])].status = "Outbound"
                          /\ slots'[Seq2Ind(batch'[k])].seq = batch'[k]
        BY DEF BatchOutbound, Seq2Ind
      <4>1. CASE k = Len(batch) + 1
        BY <3>7, <3>8, <3>15, <4>1
      <4>2. CASE k \in 1..Len(batch)
        <5> DEFINE j == Seq2Ind(batch[k])
        <5>1. slots[j].status = "Outbound" /\ slots[j].seq = batch[k] /\ j \in Slots
          BY <1>4, <4>2, BatchSlots DEF BatchOutbound
        <5>2. j # i
          BY <3>11, <5>1 DEF s
        <5>3. slots'[j] = slots[j] /\ batch'[k] = batch[k]
          BY <3>6, <3>8, <4>2, <5>1, <5>2
        <5> QED BY <5>1, <5>3
      <4> QED BY <3>9, <4>1, <4>2
    <3>19. BatchApart'
      <4> SUFFICES ASSUME NEW k \in 1..Len(batch')
                   PROVE  /\ pc'[Handler] \in {"acquire", "element"} =>
                               batch'[k] # slots'[Place(0)].seq
                          /\ pc'[Handler] = "free" => batch'[k] # slots'[index[Handler]].seq
        BY <3>3, <3>13 DEF BatchApart
      <4>1. CASE k = Len(batch) + 1
        BY <3>4, <3>8, <3>14, <4>1
      <4>2. CASE k \in 1..Len(batch)
        BY <1>4, <3>4, <3>8, <3>14, <4>2 DEF BatchApart
      <4> QED BY <3>9, <4>1, <4>2
    <3> QED BY <1>4, <1>5, <3>3, <3>16, <3>17, <3>18, <3>19
  <2> QED BY <2>2, <2>3
<1>15. CASE UpdateElement
  <2>1. pc[Sender] = "update" /\ batch # <<>>
    BY <1>15 DEF UpdateElement, PlacesOK
  <2>2. Len(batch) >= 1 /\ Head(batch) = batch[1] /\ 1 \in 1..Len(batch)
        /\ Len(Tail(batch)) = Len(batch) - 1
        /\ \A k \in 1..Len(Tail(batch)) : Tail(batch)[k] = batch[k + 1]
    <3>1. Len(batch) # 0
      BY <1>0, <2>1, EmptySeq
    <3> QED BY <1>0, <2>1, <3>1, HeadTailProperties
  <2>3. slots[Seq2Ind(Head(batch))].status = "Outbound"
    BY <1>4, <2>2 DEF BatchOutbound
  <2>4. /\ batch' = Tail(batch) /\ UNCHANGED <<head, tail, slots, put, aborted, seq, index>>
        /\ pc' = pc \/ pc' = [pc EXCEPT ![Sender] = "idle"]
    BY <1>15, <2>3 DEF UpdateElement
  <2>5. pc'[Reader] = pc[Reader] /\ pc'[Handler] = pc[Handler]
    BY <1>0, <2>4
  <2>6. Passed' = Passed
    BY <2>4, <2>5, PassedStays
  <2>7. \A k \in 1..Len(batch') : k + 1 \in 1..Len(batch) /\ batch'[k] = batch[k + 1]
    BY <1>0, <2>2, <2>4
  <2>8. TailExact' /\ SeqExact' /\ SlotsExact'
    BY <1>4, <2>4, <2>5, <2>6 DEF TailExact, SeqExact, SlotsExact
  <2>9. BatchOutbound'
    BY <1>4, <2>4, <2>7 DEF BatchOutbound, Seq2Ind
  <2>10. BatchApart'
    <3>1. Place(0)' = Place(0)
      BY <2>4 DEF Place
    <3> QED BY <1>4, <2>4, <2>5, <2>7, <3>1 DEF BatchApart
  <2> QED BY <1>4, <1>5, <2>4, <2>8, <2>9, <2>10
<1>16. CASE Acked
  <2>1. /\ pc' = [pc EXCEPT ![Handler] = "acquire"] /\ Sent(SlotOf(head))
        /\ UNCHANGED <<head, tail, slots, batch, put, aborted, seq, index>>
    BY <1>16 DEF Acked
  <2>2. pc'[Reader] = pc[Reader] /\ pc'[Handler] = "acquire"
    BY <1>0, <2>1
  <2>3. Passed' = Passed
    BY <2>1, <2>2, PassedStays
  <2>4. TailExact' /\ SeqExact' /\ SlotsExact'
    BY <1>4, <2>1, <2>2, <2>3 DEF TailExact, SeqExact, SlotsExact
  <2>5. BatchOutbound'
    BY <1>4, <2>1 DEF BatchOutbound, Seq2Ind
  <2>6. BatchApart'
    <3>1. Place(0)' = Place(0)
      BY <2>1 DEF Place
    <3>2. \A k \in 1..Len(batch) : batch[k] # slots[Place(0)].seq
      <4>1. DOMAIN batch = 1..Len(batch)
        BY <1>0
      <4> QED BY <1>6, <2>1, <4>1 DEF Sent
    <3> QED BY <2>1, <2>2, <3>1, <3>2 DEF BatchApart
  <2> QED BY <1>4, <1>5, <2>1, <2>4, <2>5, <2>6
<1>17. CASE EnterOrSleep(Handler, head = tail)
  <2>1. /\ pc[Handler] = "acquire" /\ pc'[Handler] \in {"sleep", "element"}
        /\ pc'[Reader] = pc[Reader]
        /\ UNCHANGED <<head, tail, slots, batch, put, aborted, index, seq>>
    BY <1>0, <1>17 DEF EnterOrSleep
  <2>2. Passed' = Passed
    BY <2>1, PassedStays
  <2> QED BY <1>4, <2>1, <2>2, NumberedStays
<1>18. CASE AcquireHeadLock
  <2>1. /\ pc[Handler] = "element" /\ pc' = [SignalEmpty EXCEPT ![Handler] = "free"]
        /\ index' = [index EXCEPT ![Handler] = SlotOf(head)]
        /\ UNCHANGED <<tail, slots, batch, put, aborted, seq>>
    BY <1>18 DEF AcquireHeadLock
  <2>2. /\ pc'[Handler] = "free" /\ index'[Handler] = Place(0)
        /\ pc'[Reader] # "idle" => pc[Reader] # "idle"
        /\ pc'[Reader] = "store" <=> pc[Reader] = "store"
    BY <1>0, <1>6, <2>1, SignalledPlaces
  <2>3. Passed' = Passed
    BY <2>1, <2>2, PassedStays
  <2>4. TailExact' /\ SeqExact' /\ SlotsExact'
    BY <1>4, <2>1, <2>2, <2>3 DEF TailExact, SeqExact, SlotsExact
  <2>5. BatchOutbound'
    BY <1>4, <2>1 DEF BatchOutbound, Seq2Ind
  <2>6. BatchApart'
    BY <1>4, <2>1, <2>2 DEF BatchApart
  <2> QED BY <1>4, <1>5, <2>1, <2>4, <2>5, <2>6
<1>19. CASE Free
  <2> DEFINE i == index[Handler]
  <2>1. /\ pc[Handler] = "free" /\ pc' = [pc EXCEPT ![Handler] = "idle"]
        /\ slots' = [slots EXCEPT ![i] = EmptySlot]
        /\ UNCHANGED <<head, tail, batch, put, aborted, seq, index>>
    BY <1>19 DEF Free
  <2>2. pc'[Reader] = pc[Reader] /\ pc'[Handler] = "idle"
    BY <1>0, <2>1
  <2>3. Passed' = Passed
    BY <2>1, <2>2, PassedStays
  <2>4. slots'[i].status = "Empty" /\ \A j \in Slots \ {i} : slots'[j] = slots[j]
    BY <1>0, <2>1 DEF TypesOK, EmptySlot
  <2>5. TailExact' /\ SeqExact'
    BY <1>4, <2>1, <2>2, <2>3 DEF TailExact, SeqExact
  <2>6. \A k \in 1..Len(batch) : batch[k] # slots[i].seq
    BY <1>4, <2>1 DEF BatchApart
  <2> HIDE DEF i
  <2>7. SlotsExact'
    <3>1. \A j \in Slots : slots'[j].status # "Empty" => slots'[j] = slots[j]
      BY <2>4
    <3> QED BY <1>4, <3>1 DEF SlotsExact
  <2>8. BatchOutbound'
    <3> SUFFICES ASSUME NEW k \in 1..Len(batch)
                 PROVE  /\ slots'[Seq2Ind(batch[k])].status = "Outbound"
                        /\ slots'[Seq2Ind(batch[k])].seq = batch[k]
      BY <2>1 DEF BatchOutbound, Seq2Ind
    <3> DEFINE j == Seq2Ind(batch[k])
    <3>1. slots[j].status = "Outbound" /\ slots[j].seq = batch[k] /\ j \in Slots
      BY <1>4, BatchSlots DEF BatchOutbound
    <3>2. j # i
      BY <2>6, <3>1
    <3> QED BY <2>4, <3>1, <3>2
  <2>9. BatchApart'
    BY <2>2 DEF BatchApart
  <2> QED BY <1>4, <1>5, <2>1, <2>5, <2>7, <2>8, <2>9
<1>20. ASSUME NEW k \in Slots, Nacked(k) PROVE NumberedOK'
  <2> DEFINE i == SlotOf((head + k) % PtSpace)
  <2>1. /\ pc[Handler] = "idle" /\ Sent(i)
        /\ UNCHANGED <<head, tail, pc, index, put, batch, aborted, seq>>
        /\ slots' = [slots EXCEPT ![i].status = "Retrans"]
    BY <1>20 DEF Nacked
  <2>2. Passed' = Passed
    BY <2>1, PassedStays
  <2>3. \A n \in 1..Len(batch) : batch[n] # slots[i].seq
    <3>1. DOMAIN batch = 1..Len(batch)
      BY <1>0
    <3> QED BY <2>1, <3>1 DEF Sent
  <2>4. slots[i].status = "Outbound"
    BY <2>1 DEF Sent
  <2> HIDE DEF i
  <2>5. ASSUME NEW j \in Slots
        PROVE  /\ slots'[j].pkt = slots[j].pkt /\ slots'[j].seq = slots[j].seq
               /\ slots'[j].status # "Empty" => slots[j].status # "Empty"
               /\ j # i => slots'[j] = slots[j]
    <3>1. \/ slots'[j] = slots[j]
          \/ j = i /\ slots'[j] = [slots[j] EXCEPT !.status = "Retrans"]
      BY <2>1 DEF TypesOK
    <3> QED BY <1>0, <2>4, <3>1
  <2>6. TailExact' /\ SeqExact'
    BY <1>4, <2>1, <2>2 DEF TailExact, SeqExact
  <2>7. SlotsExact'
    BY <1>4, <2>5 DEF SlotsExact
  <2>8. BatchOutbound'
    <3> SUFFICES ASSUME NEW n \in 1..Len(batch)
                 PROVE  /\ slots'[Seq2Ind(batch[n])].status = "Outbound"
                        /\ slots'[Seq2Ind(batch[n])].seq = batch[n]
      BY <2>1 DEF BatchOutbound, Seq2Ind
    <3> DEFINE j == Seq2Ind(batch[n])
    <3>1. slots[j].status = "Outbound" /\ slots[j].seq = batch[n] /\ j \in Slots
      BY <1>4, BatchSlots DEF BatchOutbound
    <3>2. j # i
      BY <2>3, <3>1
    <3> QED BY <2>5, <3>1, <3>2
  <2>9. BatchApart'
    BY <2>1 DEF BatchApart
  <2> QED BY <1>4, <1>5, <2>1, <2>6, <2>7, <2>8, <2>9
<1>22. ASSUME NEW i \in Slots, DisableRetransmission(i) PROVE NumberedOK'
  <2>1. /\ pc[Handler] = "idle"
        /\ UNCHANGED <<head, tail, pc, index, put, batch, aborted, seq>>
        /\ slots' = [slots EXCEPT ![i].retrans = 0]
    BY <1>22 DEF DisableRetransmission
  <2>2. Passed' = Passed
    BY <2>1, PassedStays
  <2>3. ASSUME NEW j \in Slots
        PROVE  /\ slots'[j].pkt = slots[j].pkt /\ slots'[j].seq = slots[j].seq
               /\ slots'[j].status = slots[j].status
    <3>1. slots'[j] = slots[j] \/ slots'[j] = [slots[j] EXCEPT !.retrans = 0]
      BY <2>1 DEF TypesOK
    <3> QED BY <1>0, <3>1
  <2>4. TailExact' /\ SeqExact'
    BY <1>4, <2>1, <2>2 DEF TailExact, SeqExact
  <2>5. SlotsExact'
    BY <1>4, <2>3 DEF SlotsExact
  <2>6. BatchOutbound'
    <3> SUFFICES ASSUME NEW n \in 1..Len(batch)
                 PROVE  /\ slots'[Seq2Ind(batch[n])].status = "Outbound"
                        /\ slots'[Seq2Ind(batch[n])].seq = batch[n]
      BY <2>1 DEF BatchOutbound, Seq2Ind
    <3> DEFINE j == Seq2Ind(batch[n])
    <3>1. slots[j].status = "Outbound" /\ slots[j].seq = batch[n] /\ j \in Slots
      BY <1>4, BatchSlots DEF BatchOutbound
    <3> QED BY <2>3, <3>1
  <2>7. BatchApart'
    BY <2>1 DEF BatchApart
  <2> QED BY <1>4, <1>5, <2>1, <2>4, <2>5, <2>6, <2>7
<1>21. CASE UNCHANGED vars
  <2>1. UNCHANGED <<head, tail, slots, batch, put, aborted, index, seq, pc>>
    BY <1>21 DEF vars
  <2>2. Passed' = Passed
    BY <2>1, PassedStays
  <2> QED BY <1>4, <2>1, <2>2, NumberedStays
<1> QED BY <1>7, <1>8, <1>9, <1>10, <1>11, <1>12, <1>13, <1>14, <1>15, <1>16, <1>17, <1>18,
           <1>19, <1>20, <1>21, <1>22
        DEF Next, ReaderStep, SenderStep, HandlerStep


-----------------------------------------------------------------------------
(* The theorems *)

(* The inductive invariant of the buffer. *)
THEOREM Invariance == Spec => []IInv
<1>1. Init => IInv
  BY InitTypes, InitPointers, InitRing, InitCounts, InitPrefix, InitNumbered DEF IInv
<1>2. IInv /\ [Next]_vars => IInv'
  BY TypesStep, PlacesStep, PointersStep, RingStep, CountsStep, PrefixStep, NumberedStep
     DEF IInv
<1> QED BY <1>1, <1>2, PTL DEF Spec

(* Every variable keeps its type; above all no packet is counted as sent   *)
(* more often than num_retrans_ allows.                                    *)
THEOREM TypeCorrect == Spec => []TypeOK
<1>1. IInv => TypeOK
  <2> SUFFICES ASSUME IInv PROVE TypeOK
    OBVIOUS
  <2>1. times \in [Pkts -> 0..NumRetrans + 1]
    <3>1. times \in [Pkts -> Nat] /\ \A p \in Pkts : times[p] <= 1 + NumRetrans
      BY DEF IInv, TypesOK, CountsOK
    <3>2. \A p \in Pkts : times[p] \in 0..NumRetrans + 1
      BY <3>1, Sizes
    <3> QED BY <3>1, <3>2
  <2> QED BY <2>1 DEF IInv, TypesOK, TypeOK
<1> QED BY <1>1, Invariance, PTL

(* head_pt_, curr_pt_ and tail_pt_ stay in this order and at most BUF_SIZE *)
(* apart, however often they wrap and curr_pt_ goes back.                  *)
THEOREM PointersInOrderHolds == Spec => []PointersInOrder
<1>1. IInv => PointersInOrder
  BY DEF IInv, PointersOK
<1> QED BY <1>1, Invariance, PTL

(* No wake-up of EnqueuePkt's thread is lost: it waits in WaitEmpty only   *)
(* while the ring is full.                                                 *)
THEOREM ReaderSleepsWhileFullHolds == Spec => []ReaderSleepsWhileFull
<1>1. IInv => ReaderSleepsWhileFull
  BY DEF IInv, PointersOK
<1> QED BY <1>1, Invariance, PTL

(* None of the assertions of the buffer fails before the packets' numbers  *)
(* wrap.                                                                   *)
THEOREM AssertionsHoldHolds == Spec => []AssertionsHold
<1>1. IInv => AssertionsHold
  <2> SUFFICES ASSUME IInv, aborted PROVE put >= PtSpace
    BY DEF AssertionsHold
  <2>1. ~(put < PtSpace)
    BY DEF IInv, NumberedOK
  <2>2. put \in Int /\ PtSpace \in Int
    BY Sizes DEF IInv, TypesOK
  <2> QED BY <2>1, <2>2
<1> QED BY <1>1, Invariance, PTL

(* Until then Seq2Ind finds every packet of the ring by its number. *)
THEOREM FoundBySeqHolds == Spec => []FoundBySeq
<1>1. IInv => FoundBySeq
  <2> SUFFICES ASSUME IInv, put < PtSpace, NEW i \in Slots, slots[i].status # "Empty"
               PROVE  Seq2Ind(slots[i].seq) = i
    BY DEF FoundBySeq
  <2>1. slots[i].seq = slots[i].pkt /\ i = (slots[i].pkt - 1) % BufSize
        /\ slots[i].pkt \in 1..put
    BY DEF IInv, NumberedOK, RingOK
  <2>2. slots[i].seq \in Pointer
    BY DEF IInv, TypesOK, Pointer
  <2>3. slots[i].seq >= 1
    BY <2>1
  <2> QED BY <2>1, <2>2, <2>3, Seq2IndOf
<1> QED BY <1>1, Invariance, PTL

(* DequeuePkt takes the packets for the first time in the order EnqueuePkt *)
(* put them in, leaves none out, and takes none more than num_retrans_     *)
(* times again, also after the pointers have wrapped.                      *)
THEOREM SentInOrderHolds == Spec => []SentInOrder
<1>1. IInv => SentInOrder
  BY DEF IInv, CountsOK, PrefixOK, SentInOrder
<1> QED BY <1>1, Invariance, PTL

=============================================================================
