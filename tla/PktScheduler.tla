---------------------------- MODULE PktScheduler ----------------------------
(***************************************************************************)
(* One contention domain's PktScheduler (packet_scheduler.h/.cc) with the  *)
(* threads that call it:                                                   *)
(*                                                                         *)
(*   - ReadTun numbers a client's packets and calls Enqueue;               *)
(*   - each forwarder (ForwardToBS) calls Dequeue, which waits in          *)
(*     ActiveList::Remove, and then sends the batch it got, one packet     *)
(*     after the other;                                                    *)
(*   - ComputeRoutes calls ComputeQuantum.                                 *)
(*                                                                         *)
(* PktQueue and ActiveList hold their own mutex from the first to the last *)
(* line of each method and wait for nothing in between, so a call of one   *)
(* is one step, and WaitFill ends the step.  PktScheduler::lock_ is held   *)
(* over several such calls; it is the variable owner, and the steps of its *)
(* holder are apart.                                                       *)
(***************************************************************************)
EXTENDS FairShare, Sequences

CONSTANTS
  Clients,        (* client ids that may ever occur                        *)
  ClientIds,      (* the ids given to the constructor                      *)
  Forwarders,     (* the ForwardToBS threads of this contention domain     *)
  ComputeRoutes,  (* the thread that calls ComputeQuantum                  *)
  NoThread,       (* lock_ is free                                         *)
  NoClient,       (* no client                                             *)
  MaxSize,        (* kMaxSize of every PktQueue, in packets                *)
  MinThroughput,  (* min_throughput, in rate units                         *)
  Throughputs,    (* the rates that reports carry, in rate units           *)
  Lens,           (* packet lengths, in bytes                              *)
  ClientSets,     (* the sets of clients ComputeQuantum may be called for  *)
  Quantum(_),     (* the quanta of the chosen FairnessMode                 *)
  MaxSeq          (* bound: packets that arrive for one client             *)

(* The arguments of ComputeQuantum: what each client of a set can get. *)
ThroughputMaps == UNION {[S -> Throughputs] : S \in ClientSets}

ASSUME SchedulerAssumption ==
  /\ IsFiniteSet(Clients) /\ IsFiniteSet(Forwarders)
  /\ ClientIds \subseteq Clients /\ ClientIds # {}
  /\ NoClient \notin Clients
  /\ ComputeRoutes \notin Forwarders
  /\ NoThread \notin Forwarders \cup {ComputeRoutes}
  /\ MaxSize \in Nat \ {0}
  /\ MinThroughput \in Nat \ {0}
  /\ Throughputs \subseteq Nat \ {0}
  /\ Lens \subseteq Nat \ {0}
  /\ ClientSets \subseteq SUBSET Clients
  /\ MaxSeq \in Nat

ASSUME QuantumAssumption ==
  \A thr \in ThroughputMaps : Quantum(thr) \in [DOMAIN thr -> Nat]

VARIABLES
  queues,      (* queues_: the packets queued for each client              *)
  hasQueue,    (* the keys of queues_                                      *)
  ids, exist,  (* active_list_: ids_ and exist_                            *)
  served,      (* the keys of stats_, and client_ids_                      *)
  throughput, quantum, counter,  (* the values of stats_; 0 for no entry   *)
  owner,       (* the thread that holds lock_                              *)
  pc,          (* where each forwarder is                                  *)
  cur,         (* its client_id                                            *)
  top,         (* its len: the size of the packet it saw, 0 for none       *)
  pkts,        (* its batch                                                *)
  toClear,     (* ComputeQuantum: queues still to be cleared               *)
  pend,        (* ReadTun: the client Enqueue has yet to Append            *)
  oseq,        (* client_original_seq_tbl_: last number given              *)
  lastSent     (* history: number of the last packet sent to a client      *)

listVars  == <<ids, exist>>
statsVars == <<served, throughput, quantum, counter>>
fwdVars   == <<pc, cur, top, pkts>>
vars == <<queues, hasQueue, listVars, statsVars, owner, fwdVars,
          toClear, pend, oseq, lastSent>>

Packet == [seq : 1..MaxSeq, len : Lens]

(* remove: calling Remove; asleep, woken: in its WaitFill, before and after *)
(* a signal; lock: has a client, calling Lock; peek, pop, finish: holding   *)
(* lock_ before PeekTopPktSize, before PktQueue::Dequeue, after the loop;   *)
(* send: in the loop of ForwardToBS.                                        *)
Places  == {"remove", "asleep", "woken", "lock", "peek", "pop", "finish", "send"}
Holding == {"peek", "pop", "finish"}

-----------------------------------------------------------------------------
(* ActiveList *)

Asleep(p) == {f \in Forwarders : p[f] = "asleep"}
Woken(p)  == {f \in Forwarders : p[f] = "woken"}

(* pthread_cond_signal wakes one waiter, any of them, or is lost.  p is pc *)
(* as the caller leaves it; the result is the set of what pc may become.   *)
SignalFill(p) ==
  IF Asleep(p) = {} THEN {p} ELSE {[p EXCEPT ![f] = "woken"] : f \in Asleep(p)}

(* Mutant: Append signals only when the list was empty. *)
SignalIfWasEmpty(c, p) ==
  IF c \in exist
  THEN /\ pc' = p
       /\ UNCHANGED listVars
  ELSE /\ ids' = Append(ids, c)
       /\ exist' = exist \cup {c}
       /\ pc' \in IF ids = <<>> THEN SignalFill(p) ELSE {p}

AppendToList(c, p) ==
  IF c \in exist
  THEN /\ pc' = p
       /\ UNCHANGED listVars
  ELSE /\ ids' = Append(ids, c)
       /\ exist' = exist \cup {c}
       /\ pc' \in SignalFill(p)

WaitFill(f) ==
  /\ pc[f] \in {"remove", "woken"}
  /\ ids = <<>>
  /\ pc' = [pc EXCEPT ![f] = "asleep"]
  /\ UNCHANGED <<queues, hasQueue, listVars, statsVars, owner, cur, top, pkts,
                 toClear, pend, oseq, lastSent>>

(* POSIX lets pthread_cond_wait return without a signal. *)
SpuriousWakeup(f) ==
  /\ pc[f] = "asleep"
  /\ pc' = [pc EXCEPT ![f] = "woken"]
  /\ UNCHANGED <<queues, hasQueue, listVars, statsVars, owner, cur, top, pkts,
                 toClear, pend, oseq, lastSent>>

(* Mutant: Remove leaves the client in exist_. *)
RemoveKeepsExist(f) ==
  /\ pc[f] \in {"remove", "woken"}
  /\ ids # <<>>
  /\ cur' = [cur EXCEPT ![f] = Head(ids)]
  /\ ids' = Tail(ids)
  /\ pc' = [pc EXCEPT ![f] = "lock"]
  /\ UNCHANGED <<queues, hasQueue, exist, statsVars, owner, top, pkts,
                 toClear, pend, oseq, lastSent>>

RemoveFromList(f) ==
  /\ pc[f] \in {"remove", "woken"}
  /\ ids # <<>>
  /\ cur' = [cur EXCEPT ![f] = Head(ids)]
  /\ ids' = Tail(ids)
  /\ exist' = exist \ {Head(ids)}
  /\ pc' = [pc EXCEPT ![f] = "lock"]
  /\ UNCHANGED <<queues, hasQueue, statsVars, owner, top, pkts,
                 toClear, pend, oseq, lastSent>>

-----------------------------------------------------------------------------
(* ReadTun: the next packet of client c, of len bytes *)

(* Mutant: PktQueue::Enqueue does not look whether the queue is full. *)
NeverFull(c) == FALSE

IsFull(c) == Len(queues[c]) = MaxSize

(* Mutant: the packet goes in front. *)
PushedInFront(q, p) == <<p>> \o q

Pushed(q, p) == Append(q, p)

Enqueue(c, len) ==
  /\ pend = NoClient
  /\ c \in hasQueue
  /\ oseq[c] < MaxSeq
  /\ oseq' = [oseq EXCEPT ![c] = @ + 1]
  /\ IF IsFull(c)
     THEN UNCHANGED <<queues, pend>>
     ELSE /\ queues' = [queues EXCEPT ![c] =
                          Pushed(@, [seq |-> oseq[c] + 1, len |-> len])]
          /\ pend' = c
  /\ UNCHANGED <<hasQueue, listVars, statsVars, owner, fwdVars, toClear, lastSent>>

EnqueueAppend ==
  /\ pend # NoClient
  /\ AppendToList(pend, pc)
  /\ pend' = NoClient
  /\ UNCHANGED <<queues, hasQueue, statsVars, owner, cur, top, pkts,
                 toClear, oseq, lastSent>>

-----------------------------------------------------------------------------
(* Dequeue and ForwardToBS *)

(* Mutant: lock_ is not taken. *)
NoLocking == TRUE

LockIsFree == owner = NoThread

(* Mutant: what was left of earlier rounds is lost. *)
QuantumOnly(c) == quantum[c]

(* The time client c has in this round. *)
RoundTime(c) == counter[c] + quantum[c]

(* Lock, and the client is still served: its round begins. *)
StartRound(f) ==
  /\ pc[f] = "lock"
  /\ LockIsFree
  /\ cur[f] \in served
  /\ owner' = f
  /\ pkts' = [pkts EXCEPT ![f] = <<>>]
  /\ counter' = [counter EXCEPT ![cur[f]] = RoundTime(cur[f])]
  /\ pc' = [pc EXCEPT ![f] = "peek"]
  /\ UNCHANGED <<queues, hasQueue, listVars, served, throughput, quantum, cur, top,
                 toClear, pend, oseq, lastSent>>

(* Lock, the client has no stats, UnLock, and back to Remove. *)
SkipClient(f) ==
  /\ pc[f] = "lock"
  /\ LockIsFree
  /\ cur[f] \notin served
  /\ pc' = [pc EXCEPT ![f] = "remove"]
  /\ UNCHANGED <<queues, hasQueue, listVars, statsVars, owner, cur, top, pkts,
                 toClear, pend, oseq, lastSent>>

PeekTopPktSize(c) == IF queues[c] = <<>> THEN 0 ELSE Head(queues[c]).len

(* Mutant: time that just does is not enough. *)
AffordsStrictly(c, len) == counter[c] > Duration(len, throughput[c])

Affords(c, len) == counter[c] >= Duration(len, throughput[c])

Peek(f) ==
  LET len == PeekTopPktSize(cur[f]) IN
  /\ pc[f] = "peek"
  /\ top' = [top EXCEPT ![f] = len]
  /\ pc' = [pc EXCEPT ![f] =
              IF len > 0 /\ Affords(cur[f], len) THEN "pop" ELSE "finish"]
  /\ UNCHANGED <<queues, hasQueue, listVars, statsVars, owner, cur, pkts,
                 toClear, pend, oseq, lastSent>>

(* Mutant: PktQueue::Dequeue forgets q_.pop(). *)
NoPop(q) == q

PopFront(q) == Tail(q)

(* Mutant: the client is not charged. *)
NoCharge(c, len) == counter[c]

Charged(c, len) == counter[c] - Duration(len, throughput[c])

(* PktQueue::Dequeue, push_back, and the charge for the size that was seen. *)
Pop(f) ==
  LET c == cur[f] IN
  /\ pc[f] = "pop"
  /\ pkts' = [pkts EXCEPT ![f] = Append(@, Head(queues[c]))]
  /\ queues' = [queues EXCEPT ![c] = PopFront(@)]
  /\ counter' = [counter EXCEPT ![c] = Charged(c, top[f])]
  /\ pc' = [pc EXCEPT ![f] = "peek"]
  /\ UNCHANGED <<hasQueue, listVars, served, throughput, quantum, owner, cur, top,
                 toClear, pend, oseq, lastSent>>

AfterRound(f) == [pc EXCEPT ![f] = IF pkts[f] = <<>> THEN "remove" ELSE "send"]

(* Mutant: an empty queue leaves the counter as it is. *)
FinishEmptyKeepsCounter(f) ==
  /\ pc[f] = "finish"
  /\ top[f] = 0
  /\ pc' = AfterRound(f)
  /\ owner' = NoThread
  /\ UNCHANGED <<queues, hasQueue, listVars, statsVars, cur, top, pkts,
                 toClear, pend, oseq, lastSent>>

(* The queue was empty: the rest of the quantum is forfeited, UnLock. *)
FinishEmpty(f) ==
  /\ pc[f] = "finish"
  /\ top[f] = 0
  /\ counter' = [counter EXCEPT ![cur[f]] = 0]
  /\ pc' = AfterRound(f)
  /\ owner' = NoThread
  /\ UNCHANGED <<queues, hasQueue, listVars, served, throughput, quantum, cur, top,
                 pkts, toClear, pend, oseq, lastSent>>

(* The time did not do for the next packet: the client goes to the end of  *)
(* the list, UnLock.  len goes out of scope.                               *)
FinishBacklogged(f) ==
  /\ pc[f] = "finish"
  /\ top[f] > 0
  /\ AppendToList(cur[f], AfterRound(f))
  /\ top' = [top EXCEPT ![f] = 0]
  /\ owner' = NoThread
  /\ UNCHANGED <<queues, hasQueue, statsVars, cur, pkts, toClear, pend, oseq, lastSent>>

NextOfBatch(f) == Head(pkts[f])

Send(f) ==
  /\ pc[f] = "send"
  /\ lastSent' = [lastSent EXCEPT ![cur[f]] = NextOfBatch(f).seq]
  /\ pkts' = [pkts EXCEPT ![f] = Tail(@)]
  /\ pc' = [pc EXCEPT ![f] = IF Len(pkts[f]) = 1 THEN "remove" ELSE "send"]
  /\ UNCHANGED <<queues, hasQueue, listVars, statsVars, owner, cur, top,
                 toClear, pend, oseq>>

-----------------------------------------------------------------------------
(* ComputeQuantum(thr), called by ComputeRoutes *)

(* Mutant: stats_ is not cleared, entries keep their counter. *)
KeptCounters == counter

FreshCounters == [c \in Clients |-> 0]

(* Lock; stats_ now holds the clients of thr, and no other, with counter 0. *)
BeginCompute(thr) ==
  /\ LockIsFree
  /\ owner' = ComputeRoutes
  /\ served' = DOMAIN thr
  /\ throughput' = [c \in Clients |-> IF c \in DOMAIN thr THEN thr[c] ELSE 0]
  /\ quantum' = [c \in Clients |-> 0]
  /\ counter' = FreshCounters
  /\ hasQueue' = hasQueue \cup DOMAIN thr
  /\ toClear' = hasQueue' \ DOMAIN thr
  /\ UNCHANGED <<queues, listVars, fwdVars, pend, oseq, lastSent>>

ClearQueue(c) ==
  /\ c \in toClear
  /\ queues' = [queues EXCEPT ![c] = <<>>]
  /\ toClear' = toClear \ {c}
  /\ UNCHANGED <<hasQueue, listVars, statsVars, owner, fwdVars, pend, oseq, lastSent>>

(* The rates in stats_. *)
Rates == [c \in served |-> throughput[c]]

(* The quanta of the fairness mode, UnLock. *)
EndCompute ==
  /\ owner = ComputeRoutes
  /\ toClear = {}
  /\ quantum' = [c \in Clients |-> IF c \in served THEN Quantum(Rates)[c] ELSE 0]
  /\ owner' = NoThread
  /\ UNCHANGED <<queues, hasQueue, listVars, served, throughput, counter, fwdVars,
                 toClear, pend, oseq, lastSent>>

-----------------------------------------------------------------------------

Init ==
  /\ queues = [c \in Clients |-> <<>>]
  /\ hasQueue = ClientIds
  /\ ids = <<>>
  /\ exist = {}
  /\ served = ClientIds
  /\ throughput = [c \in Clients |-> IF c \in ClientIds THEN MinThroughput ELSE 0]
  /\ quantum = [c \in Clients |->
                  IF c \in ClientIds THEN RoundTicks \div Cardinality(ClientIds) ELSE 0]
  /\ counter = [c \in Clients |-> 0]
  /\ owner = NoThread
  /\ pc = [f \in Forwarders |-> "remove"]
  /\ cur = [f \in Forwarders |-> NoClient]
  /\ top = [f \in Forwarders |-> 0]
  /\ pkts = [f \in Forwarders |-> <<>>]
  /\ toClear = {}
  /\ pend = NoClient
  /\ oseq = [c \in Clients |-> 0]
  /\ lastSent = [c \in Clients |-> 0]

ReadTunStep == EnqueueAppend \/ \E c \in Clients, len \in Lens : Enqueue(c, len)

ForwarderStep(f) ==
  \/ WaitFill(f) \/ RemoveFromList(f)
  \/ StartRound(f) \/ SkipClient(f)
  \/ Peek(f) \/ Pop(f) \/ FinishEmpty(f) \/ FinishBacklogged(f)
  \/ Send(f)

ComputeRoutesStep ==
  \/ \E thr \in ThroughputMaps : BeginCompute(thr)
  \/ \E c \in Clients : ClearQueue(c)
  \/ EndCompute

Next ==
  \/ ReadTunStep
  \/ \E f \in Forwarders : ForwarderStep(f) \/ SpuriousWakeup(f)
  \/ ComputeRoutesStep

Spec == Init /\ [][Next]_vars

(* The threads are scheduled: one that can take a step at last takes one.  *)
(* Nothing is asked of ReadTun's arrivals, of spurious wakeups or of when  *)
(* ComputeRoutes starts an update; Enqueue and an update, once begun, end. *)
Fairness ==
  /\ \A f \in Forwarders : WF_vars(ForwarderStep(f))
  /\ WF_vars(EnqueueAppend)
  /\ WF_vars(EndCompute \/ \E c \in Clients : ClearQueue(c))

FairSpec == Spec /\ Fairness

-----------------------------------------------------------------------------
(* Properties *)

TypeOK ==
  /\ queues \in [Clients -> Seq(Packet)]
  /\ \A c \in Clients : Len(queues[c]) <= MaxSize
  /\ hasQueue \in SUBSET Clients
  /\ ids \in Seq(Clients)
  /\ exist \in SUBSET Clients
  /\ served \in SUBSET Clients
  /\ throughput \in [Clients -> Nat]
  /\ \A c \in served : throughput[c] > 0
  /\ quantum \in [Clients -> Nat]
  /\ counter \in [Clients -> Nat]
  /\ owner \in Forwarders \cup {ComputeRoutes, NoThread}
  /\ pc \in [Forwarders -> Places]
  /\ cur \in [Forwarders -> Clients \cup {NoClient}]
  /\ top \in [Forwarders -> Lens \cup {0}]
  /\ pkts \in [Forwarders -> Seq(Packet)]
  /\ toClear \in SUBSET Clients
  /\ pend \in Clients \cup {NoClient}
  /\ oseq \in [Clients -> 0..MaxSeq]
  /\ lastSent \in [Clients -> 0..MaxSeq]

(* lock_ guards what its holder does in several calls: a forwarder is      *)
(* between Lock and UnLock when it is the owner and only then.             *)
LockOK == \A f \in Forwarders : owner = f <=> pc[f] \in Holding

(* The client in a forwarder's hand keeps its stats and queue while the    *)
(* forwarder has the lock, and ForwardToBS loops over a batch to its end.  *)
HandOK ==
  \A f \in Forwarders :
    /\ pc[f] \in Holding => cur[f] \in served
    /\ pc[f] \in {"lock", "send"} => cur[f] \in Clients
    /\ pc[f] = "send" => pkts[f] # <<>>

(* ComputeQuantum clears only queues of clients without stats, under the   *)
(* lock, and its arguments are what it puts into stats_.                   *)
StatsOK ==
  /\ served \subseteq hasQueue
  /\ \A c \in Clients \ served : counter[c] = 0
  /\ toClear \cap served = {}
  /\ toClear # {} => owner = ComputeRoutes
  /\ owner = ComputeRoutes => Rates \in ThroughputMaps

(* ids_ and exist_ of ActiveList agree: each listed client is listed once. *)
Listed == {ids[i] : i \in 1..Len(ids)}

ListOK ==
  /\ exist = Listed
  /\ \A i, j \in 1..Len(ids) : i # j => ids[i] # ids[j]

(* The packet Dequeue saw with PeekTopPktSize is still the top packet, and *)
(* the client still has the time for it, when it calls PktQueue::Dequeue:  *)
(* assert(!IsEmpty()) holds and the client is charged for what it gets.    *)
PopIsSafe ==
  \A f \in Forwarders : pc[f] = "pop" =>
    /\ queues[cur[f]] # <<>>
    /\ Head(queues[cur[f]]).len = top[f]
    /\ Affords(cur[f], top[f])

(* Dequeue gives up a round because its time is short only while the top   *)
(* packet is the one it saw and the client still cannot pay for it.        *)
ShortOfTime(c) ==
  /\ queues[c] # <<>>
  /\ ~Affords(c, Head(queues[c]).len)

BackloggedIsShort ==
  \A f \in Forwarders : pc[f] = "finish" /\ top[f] > 0 =>
    ShortOfTime(cur[f]) /\ Head(queues[cur[f]]).len = top[f]

(* Between rounds a client has no credit, or less than its top packet      *)
(* costs: an idle client saves up no time, a backlogged one less than one  *)
(* packet, however arrivals, rounds and ComputeQuantum interleave.         *)
CreditCarried ==
  \A c \in Clients :
    (\A f \in Forwarders : owner = f => cur[f] # c)
      => counter[c] = 0 \/ ShortOfTime(c)

(* While forwarders sleep in WaitFill, every client in the list has an     *)
(* awakened forwarder coming for it: the single signal of Append, which    *)
(* may go to a thread that finds the list empty again, loses no client.    *)
NoLostWakeup ==
  Asleep(pc) # {} => Len(ids) <= Cardinality(Woken(pc))

(* Forwarder f has taken client c from the list and will look at its queue *)
(* (again), or has seen a packet there and will put c back.                *)
InHand(f, c) ==
  /\ cur[f] = c
  /\ \/ pc[f] \in {"lock", "peek", "pop"}
     \/ pc[f] = "finish" /\ top[f] > 0

(* A served client with packets is in the active list, in the hand of a    *)
(* forwarder or about to be appended by ReadTun, so its packets do not     *)
(* wait for another arrival (the comment "Track clients with non-empty     *)
(* queues").                                                               *)
NotStranded ==
  \A c \in served :
    queues[c] # <<>> =>
      \/ c \in Listed
      \/ pend = c
      \/ \E f \in Forwarders : InHand(f, c)

(* No packet is handed out twice or out of order: the numbers in a batch   *)
(* followed by those in the client's queue only increase, and two          *)
(* forwarders never hold the same packet.                                  *)
Increasing(s) == \A i, j \in 1..Len(s) : i < j => s[i].seq < s[j].seq

HandedOnce ==
  \A c \in Clients :
    /\ Increasing(queues[c])
    /\ \A f \in Forwarders : cur[f] = c => Increasing(pkts[f] \o queues[c])
    /\ \A f, g \in Forwarders :
         f # g /\ cur[f] = c /\ cur[g] = c =>
           \A i \in 1..Len(pkts[f]), j \in 1..Len(pkts[g]) :
             pkts[f][i].seq # pkts[g][j].seq

(* The packets of a client leave in the order ReadTun numbered them, for a *)
(* contention domain with one forwarder.                                   *)
SentInOrder ==
  [][\A c \in Clients :
       lastSent'[c] # lastSent[c] => lastSent'[c] > lastSent[c]]_lastSent

(* The airtime of a batch. *)
BatchTime(f) ==
  SumFunction([i \in 1..Len(pkts[f]) |-> Duration(pkts[f][i].len, throughput[cur[f]])])

(* What a client is given in one round exceeds its quantum, if at all, by  *)
(* less than its longest packet, so a backlog of many rounds is never paid *)
(* out at once to the cost of the other clients.                           *)
Given(f) == BatchTime(f) + counter[cur[f]]

LongestTime(thr) == Duration(CHOOSE m \in Lens : \A l \in Lens : l <= m, thr)

RoundBudget ==
  \A f \in Forwarders : owner = f /\ Given(f) > quantum[cur[f]] =>
    Given(f) < quantum[cur[f]] + LongestTime(throughput[cur[f]])

(* When the updates of the quanta cease, every queued packet is sent, even *)
(* one that takes the quanta of several rounds.  (Every update sets the    *)
(* counters to 0.)                                                         *)
Queued(c, n) == \E i \in 1..Len(queues[c]) : queues[c][i].seq = n

Delivered ==
  <>[](owner # ComputeRoutes) =>
    \A c \in Clients, n \in 1..MaxSeq : Queued(c, n) ~> lastSent[c] = n

(* TestComputeQuantum expects ComputeQuantum to raise a reported rate that *)
(* is below the constructor's min_throughput to it.                        *)
ThroughputClamped == \A c \in served : throughput[c] >= MinThroughput

(* The inductive invariant of the proofs. *)
IInv ==
  /\ TypeOK /\ LockOK /\ HandOK /\ StatsOK /\ ListOK
  /\ PopIsSafe /\ BackloggedIsShort /\ CreditCarried /\ NoLostWakeup

=============================================================================
