------------------------------ MODULE SendBuffer ------------------------------
(***************************************************************************)
(* The buffer of a base station for packets to its clients                 *)
(* (wspace_asym_util.h/.cc): BasicBuf, a ring of slots with a lock for the *)
(* pointers and one for each slot, and TxDataBuf, which adds the place of  *)
(* the packet to be sent next.                                             *)
(*                                                                         *)
(*   - Reader puts packets in at the tail (EnqueuePkt).                    *)
(*   - Sender takes the packet at curr, or gives up after a timeout        *)
(*     (DequeuePkt), and notes when its batch has gone out                 *)
(*     (UpdateBatchSendTime).                                              *)
(*   - Handler gets feedback: it frees the packet at the head              *)
(*     (AcquireHeadLock), or has a packet sent again.                      *)
(*                                                                         *)
(* The threads are in other programs.  Here each calls what the comments   *)
(* of the class say is for it, and Handler touches only packets whose      *)
(* batch has gone out.  The pointers count packets and wrap.               *)
(***************************************************************************)
EXTENDS Integers, Sequences, FiniteSets

CONSTANTS
  BufSize,     (* BUF_SIZE                                                 *)
  PtSpace,     (* 2^32, the range of a pointer and of a sequence number    *)
  NumRetrans,  (* num_retrans_                                             *)
  MaxPkts,     (* bound: packets that are put in                           *)
  MaxBatch,    (* bound: packets the sender takes before it notes the time *)
  Reader, Sender, Handler, NoThread

Threads == {Reader, Sender, Handler}

ASSUME SendBufferAssumption ==
  /\ BufSize \in Nat \ {0}
  /\ PtSpace \in Nat /\ PtSpace > 2 * BufSize
  /\ NumRetrans \in Nat
  /\ MaxPkts \in Nat /\ MaxBatch \in Nat \ {0}
  /\ Cardinality(Threads) = 3 /\ NoThread \notin Threads

VARIABLES
  head, curr, tail,  (* head_pt_, curr_pt_, tail_pt_                       *)
  slots,             (* book_keep_arr_, with the packet in pkt_buf_        *)
  qlock,             (* the holder of qlock_                               *)
  elock,             (* the holder of each lock of lock_arr_               *)
  pc,                (* where each thread is                               *)
  index,             (* its index                                          *)
  seq,               (* seq_num of EnqueuePkt                              *)
  batch,             (* the numbers Sender has taken since the last update *)
  put,               (* history: packets put in                            *)
  times,             (* history: how often each was taken to be sent       *)
  aborted            (* an assertion stopped the program                   *)

pointers == <<head, curr, tail>>
history == <<put, times>>
vars == <<pointers, slots, qlock, elock, pc, index, seq, batch, history, aborted>>

Slots == 0..BufSize - 1
Pkts == 1..MaxPkts

Next1(pt) == (pt + 1) % PtSpace
SlotOf(pt) == pt % BufSize
Seq2Ind(s) == ((s - 1) % PtSpace) % BufSize
Ahead(pt) == (pt - head) % PtSpace

EmptySlot == [pkt |-> 0, seq |-> 0, status |-> "Empty", retrans |-> 0]

-----------------------------------------------------------------------------
(* Locks and conditions *)

At(t, l) == ~aborted /\ pc[t] = l
Goto(t, l) == pc' = [pc EXCEPT ![t] = l]

Unlocked(i) == elock[i] = NoThread

(* Mutant: AcquireHeadLock leaves the slot unlocked. *)
ElementLeft(t, i) == IF t = Handler THEN elock ELSE [elock EXCEPT ![i] = t]

LockElement(t, i) == [elock EXCEPT ![i] = t]
UnLockElement(i) == [elock EXCEPT ![i] = NoThread]

(* Mutant: Reader is not signalled. *)
NoSignal == pc

(* SignalEmpty wakes Reader, the only thread that waits for empty_cond_,   *)
(* and SignalFill wakes Sender.  A thread that wakes competes for qlock_.  *)
SignalEmpty == IF pc[Reader] = "sleep" THEN [pc EXCEPT ![Reader] = "acquire"] ELSE pc

SignalFill == IF pc[Sender] = "sleep" THEN [pc EXCEPT ![Sender] = "acquire"] ELSE pc

(* Mutant: the tail meets the head one slot later. *)
OverFull == Ahead(tail) = BufSize + 1

IsFull == (head + BufSize) % PtSpace = tail

IsEmpty == tail = curr

(* WaitEmpty, WaitFill and the end of their loops: t takes qlock_ and goes *)
(* on, or sleeps until it is signalled, or wakes by itself.                *)
EnterOrSleep(t, mustWait) ==
  /\ At(t, "acquire")
  /\ qlock = NoThread
  /\ IF mustWait THEN Goto(t, "sleep") /\ UNCHANGED qlock
                 ELSE Goto(t, "element") /\ qlock' = t
  /\ UNCHANGED <<pointers, slots, elock, index, seq, batch, history, aborted>>

SpuriousWakeup(t) ==
  /\ At(t, "sleep")
  /\ Goto(t, "acquire")
  /\ UNCHANGED <<pointers, slots, qlock, elock, index, seq, batch, history, aborted>>

Abort ==
  /\ aborted' = TRUE
  /\ UNCHANGED <<pointers, slots, qlock, elock, pc, index, seq, batch, history>>

-----------------------------------------------------------------------------
(* EnqueuePkt *)

(* Mutant: the number is the tail itself. *)
SeqOfTail == tail

SeqRead == Next1(tail)

(* tail_pt() is read without qlock_. *)
EnqueuePkt ==
  /\ At(Reader, "idle")
  /\ put < MaxPkts
  /\ seq' = SeqRead
  /\ Goto(Reader, "acquire")
  /\ UNCHANGED <<pointers, slots, qlock, elock, index, batch, history, aborted>>

AcquireTailLock ==
  LET i == SlotOf(tail) IN
  /\ At(Reader, "element") /\ Unlocked(i)
  /\ elock' = LockElement(Reader, i)
  /\ index' = [index EXCEPT ![Reader] = i]
  /\ tail' = Next1(tail)
  /\ pc' = [SignalFill EXCEPT ![Reader] = "store"]
  /\ qlock' = NoThread
  /\ UNCHANGED <<head, curr, slots, seq, batch, history, aborted>>

(* The packet is copied before the assertion. *)
Store ==
  LET i == index[Reader] IN
  /\ At(Reader, "store")
  /\ IF slots[i].status # "Empty" THEN Abort
     ELSE /\ put' = put + 1
          /\ slots' = [slots EXCEPT ![i] =
               [pkt |-> put', seq |-> seq, status |-> "New", retrans |-> NumRetrans]]
          /\ elock' = UnLockElement(i)
          /\ Goto(Reader, "idle")
          /\ UNCHANGED <<pointers, qlock, index, seq, batch, times, aborted>>

-----------------------------------------------------------------------------
(* DequeuePkt and UpdateBatchSendTime *)

DequeuePkt ==
  /\ At(Sender, "idle")
  /\ Len(batch) < MaxBatch
  /\ Goto(Sender, "acquire")
  /\ UNCHANGED <<pointers, slots, qlock, elock, index, seq, batch, history, aborted>>

(* The wait ends with ETIMEDOUT, even if a packet has come by then. *)
Timeout ==
  /\ At(Sender, "sleep")
  /\ qlock = NoThread
  /\ Goto(Sender, "idle")
  /\ UNCHANGED <<pointers, slots, qlock, elock, index, seq, batch, history, aborted>>

(* Mutant: the packet at curr is not passed. *)
CurrStays == curr

CurrPassed == Next1(curr)

AcquireCurrLock ==
  LET i == SlotOf(curr) IN
  /\ At(Sender, "element") /\ Unlocked(i)
  /\ elock' = LockElement(Sender, i)
  /\ index' = [index EXCEPT ![Sender] = i]
  /\ curr' = CurrPassed
  /\ Goto(Sender, "take")
  /\ qlock' = NoThread
  /\ UNCHANGED <<head, tail, slots, seq, batch, history, aborted>>

(* Mutant: only a slot that gave a packet is unlocked. *)
UnLockIfTaken(i) ==
  IF slots[i].status \in {"New", "Retrans"} THEN UnLockElement(i) ELSE elock

UnLockTaken(i) == UnLockElement(i)

(* Mutant: a retransmission is not counted. *)
Uncounted(s) == [s EXCEPT !.status = "Outbound"]

(* Mutant: the first time is counted as a retransmission. *)
AlwaysCounted(s) == [s EXCEPT !.status = "Outbound", !.retrans = @ - 1]

Taken(s) ==
  [s EXCEPT !.status = "Outbound",
            !.retrans = IF s.status = "Retrans" THEN @ - 1 ELSE @]

(* A slot in another state gives no packet, and DequeuePkt no timeout. *)
Take ==
  LET i == index[Sender]
      s == slots[i]
  IN
  /\ At(Sender, "take")
  /\ IF s.status \notin {"New", "Retrans"}
     THEN /\ elock' = UnLockTaken(i)
          /\ Goto(Sender, "idle")
          /\ UNCHANGED <<pointers, slots, qlock, index, seq, batch, history, aborted>>
     ELSE IF s.seq = 0 \/ (s.status = "Retrans" /\ s.retrans = 0) THEN Abort
     ELSE /\ slots' = [slots EXCEPT ![i] = Taken(s)]
          /\ batch' = Append(batch, s.seq)
          /\ times' = [times EXCEPT ![s.pkt] = @ + 1]
          /\ elock' = UnLockTaken(i)
          /\ Goto(Sender, "idle")
          /\ UNCHANGED <<pointers, qlock, index, seq, put, aborted>>

(* It holds qlock_ while it goes through the slots of the batch. *)
UpdateBatchSendTime ==
  /\ At(Sender, "idle")
  /\ batch # <<>> /\ qlock = NoThread
  /\ qlock' = Sender
  /\ Goto(Sender, "update")
  /\ UNCHANGED <<pointers, slots, elock, index, seq, batch, history, aborted>>

UpdateElement ==
  /\ At(Sender, "update") /\ Unlocked(Seq2Ind(Head(batch)))
  /\ IF slots[Seq2Ind(Head(batch))].status # "Outbound" THEN Abort
     ELSE /\ batch' = Tail(batch)
          /\ IF batch' = <<>> THEN Goto(Sender, "idle") /\ qlock' = NoThread
                              ELSE UNCHANGED <<pc, qlock>>
          /\ UNCHANGED <<pointers, slots, elock, index, seq, history, aborted>>

-----------------------------------------------------------------------------
(* Handler *)

(* The packet in slot i has gone out and waits for feedback. *)
Sent(i) ==
  /\ slots[i].status = "Outbound"
  /\ ~\E k \in DOMAIN batch : batch[k] = slots[i].seq

Window == {k \in 0..BufSize - 1 : k < Ahead(tail)}

(* The packet at the head was received or is given up, and curr has passed *)
(* it: AcquireHeadLock only looks at the tail, so without this the head    *)
(* would pass curr.                                                        *)
Acked ==
  /\ At(Handler, "idle")
  /\ head # curr /\ Sent(SlotOf(head)) /\ Unlocked(SlotOf(head))
  /\ Goto(Handler, "acquire")
  /\ UNCHANGED <<pointers, slots, qlock, elock, index, seq, batch, history, aborted>>

AcquireHeadLock ==
  LET i == SlotOf(head) IN
  /\ At(Handler, "element") /\ Unlocked(i)
  /\ elock' = LockElement(Handler, i)
  /\ index' = [index EXCEPT ![Handler] = i]
  /\ head' = Next1(head)
  /\ pc' = [SignalEmpty EXCEPT ![Handler] = "free"]
  /\ qlock' = NoThread
  /\ UNCHANGED <<curr, tail, slots, seq, batch, history, aborted>>

(* UpdateBookKeeping(index, 0, kEmpty, 0) and UnLockElement *)
Free ==
  LET i == index[Handler] IN
  /\ At(Handler, "free")
  /\ slots' = [slots EXCEPT ![i] = EmptySlot]
  /\ elock' = UnLockElement(i)
  /\ Goto(Handler, "idle")
  /\ UNCHANGED <<pointers, qlock, index, seq, batch, history, aborted>>

(* The k-th packet of the buffer was lost and may be sent again: curr goes *)
(* back to it, if it is further on.                                        *)
Nacked(k) ==
  LET pt == (head + k) % PtSpace
      i == SlotOf(pt)
  IN
  /\ At(Handler, "idle")
  /\ k \in Window /\ Sent(i) /\ Unlocked(i) /\ qlock = NoThread
  /\ slots[i].retrans > 0
  /\ slots' = [slots EXCEPT ![i].status = "Retrans"]
  /\ curr' = IF k < Ahead(curr) THEN pt ELSE curr
  /\ UNCHANGED <<head, tail, qlock, elock, pc, index, seq, batch, history, aborted>>

(* Any slot, in use or not, but one whose packet is to be sent again: that *)
(* has to have a retransmission left when Sender comes to it.              *)
DisableRetransmission(i) ==
  /\ At(Handler, "idle") /\ Unlocked(i)
  /\ slots[i].status # "Retrans"
  /\ slots' = [slots EXCEPT ![i].retrans = 0]
  /\ UNCHANGED <<pointers, qlock, elock, pc, index, seq, batch, history, aborted>>

-----------------------------------------------------------------------------

Init ==
  /\ head = 0 /\ curr = 0 /\ tail = 0
  /\ slots = [i \in Slots |-> EmptySlot]
  /\ qlock = NoThread
  /\ elock = [i \in Slots |-> NoThread]
  /\ pc = [t \in Threads |-> "idle"]
  /\ index = [t \in Threads |-> 0]
  /\ seq = 0
  /\ batch = <<>>
  /\ put = 0
  /\ times = [p \in Pkts |-> 0]
  /\ aborted = FALSE

ReaderStep == EnterOrSleep(Reader, IsFull) \/ AcquireTailLock \/ Store

SenderStep ==
  \/ EnterOrSleep(Sender, IsEmpty)
  \/ Timeout
  \/ AcquireCurrLock
  \/ Take
  \/ UpdateElement

HandlerStep == EnterOrSleep(Handler, head = tail) \/ AcquireHeadLock \/ Free

Next ==
  \/ EnqueuePkt \/ ReaderStep \/ SpuriousWakeup(Reader)
  \/ DequeuePkt \/ UpdateBatchSendTime \/ SenderStep \/ SpuriousWakeup(Sender)
  \/ Acked \/ HandlerStep
  \/ \E k \in Slots : Nacked(k)
  \/ \E i \in Slots : DisableRetransmission(i)

Spec == Init /\ [][Next]_vars

(* The threads run on; Reader may have nothing to put in, and Handler      *)
(* nothing to do, for ever.                                                *)
FairSpec ==
  /\ Spec
  /\ WF_vars(ReaderStep)
  /\ WF_vars(DequeuePkt \/ UpdateBatchSendTime) /\ WF_vars(SenderStep)
  /\ WF_vars(HandlerStep)

-----------------------------------------------------------------------------
(* Properties *)

Statuses == {"Empty", "New", "Retrans", "Outbound"}

TypeOK ==
  /\ head \in 0..PtSpace - 1 /\ curr \in 0..PtSpace - 1 /\ tail \in 0..PtSpace - 1
  /\ slots \in [Slots -> [pkt : 0..MaxPkts, seq : 0..PtSpace - 1,
                          status : Statuses, retrans : 0..NumRetrans]]
  /\ qlock \in Threads \cup {NoThread}
  /\ elock \in [Slots -> Threads \cup {NoThread}]
  /\ pc \in [Threads -> {"idle", "acquire", "sleep", "element", "store", "take",
                         "update", "free"}]
  /\ index \in [Threads -> Slots]
  /\ seq \in 0..PtSpace - 1
  /\ batch \in Seq(0..PtSpace - 1) /\ Len(batch) <= MaxBatch
  /\ put \in 0..MaxPkts
  /\ times \in [Pkts -> 0..NumRetrans + 1]
  /\ aborted \in BOOLEAN

(* The pointers stay in the order head, curr, tail and a buffer's length   *)
(* apart, also when they have wrapped and curr has gone back.              *)
PointersInOrder == Ahead(curr) <= Ahead(tail) /\ Ahead(tail) <= BufSize

(* No assertion fails before the 2^32nd packet: the slot EnqueuePkt gets   *)
(* has been emptied, though the head passes it before that, a packet to be *)
(* sent has a number and retransmissions left, and the packets of a batch  *)
(* are where Seq2Ind looks for them.  (From then on numbers are 0 and, as  *)
(* BUF_SIZE does not divide 2^32, slots are used twice.)                   *)
AssertionsHold == aborted => put >= PtSpace

(* The number EnqueuePkt read before it took the lock is the one of its    *)
(* place: Seq2Ind finds each packet of the ring.                           *)
FoundBySeq ==
  put < PtSpace =>
    \A i \in Slots : slots[i].status # "Empty" => Seq2Ind(slots[i].seq) = i

(* Packets are sent for the first time in the order they were put in, none *)
(* is left out, and none is sent more often than num_retrans_ allows.      *)
SentInOrder ==
  \A p \in Pkts : times[p] > 0 =>
    times[p] <= 1 + NumRetrans /\ \A q \in 1..p - 1 : times[q] > 0

ToSend(p) == \E i \in Slots : slots[i].pkt = p /\ slots[i].status \in {"New", "Retrans"}

(* No wake-up of Reader is lost: it sleeps only as long as the ring is     *)
(* full.  (Sender's can be, as Handler moves curr back without a signal:   *)
(* it then wakes at its timeout.)                                          *)
ReaderSleepsWhileFull == pc[Reader] = "sleep" => IsFull

(* A packet that was put in, or is to be sent again, is sent.              *)
EachIsSent == \A p \in Pkts : ToSend(p) ~> ~ToSend(p) \/ aborted

(* A thread that waits for the lock of a slot while it holds qlock_ gets   *)
(* it: the threads never wait for each other in a circle.                  *)
QueueIsFreed == []<>(qlock = NoThread \/ aborted)

=============================================================================
