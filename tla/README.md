# wspace_controller in TLA+

The controller of a WSpace network sits between a wired host and several base
stations. It reads packets for mobile clients from a tun device, queues them per
client, and hands them to base stations so that the clients which compete for one
radio channel share its airtime by a chosen fairness mode (deficit round robin). Base
stations report the throughput they have to each client; every `update_route_interval_`
microseconds the controller picks a base station for each client from these reports and
computes anew how much time each client gets in a round.

This directory holds TLA+ modules of that program, TLC configurations for them and
machine-checked proofs: every safety property that holds, and the refinement, is
proved for all values of the constants.

    tlasany PktScheduler.tla                             parse
    tlc -workers 2 -config MCSchedFixed.cfg MCPktScheduler.tla
    tlapm PktSchedulerProofs.tla                         check the proofs

## The system

Threads (`wspace_controller.cc`): **RecvFromBS** (reports and control traffic from the base
stations), **ComputeRoutes** (routes and quanta), **ReadTun** (packets for clients) and one
**ForwardToBS** for each base station. They share `bs_stats_tbl_`, `routing_tbl_`, and
`packet_scheduler_tbl_`, one `PktScheduler` for each contention id (a set of base stations
on one channel).

| component | state | operations | used by |
|---|---|---|---|
| `PktQueue` | FIFO `q_` of at most `kMaxSize` packets, a mutex | Enqueue, Dequeue, PeekTopPktSize, Clear | PktScheduler |
| `ActiveList` | `ids_` (FIFO), `exist_` (set), a mutex, `fill_cond_` | Append (signals), Remove (waits) | PktScheduler |
| `PktScheduler` | `queues_`, `stats_` (throughput, quantum, deficit counter), `client_ids_`, `active_list_`, `lock_` | Enqueue, Dequeue, ComputeQuantum | ReadTun, ForwardToBS, ComputeRoutes |
| `BSStatsTable` | `stats_[client][bs]`, a mutex | Update, GetStats, GetThroughput, Clear | RecvFromBS, ComputeRoutes, ForwardToBS |
| `RoutingTable` | `stats_` (the copy), `route_`, `bs_tbl_`, files, a mutex | Init, UpdateRoutes in four modes, FindRoute, Print* | ComputeRoutes, ReadTun, ForwardToBS |
| `RecvFromBS` | `current_seq` of each link | takes a report, forwards other packets | base stations |
| `ComputeRoutes` | `throughputs`, `splited_throughputs`, `bs_index` | the update loop | - |
| `ReadTun` | `client_original_seq_tbl_` | numbers a packet, Enqueue | tun device |
| `ForwardToBS` | its batch and client id | Dequeue, sends the batch | base stations |
| main, start-up | `conflict_graph_`, command line | creates and joins the threads | - |
| `Tun` | sockets | Read, Write, Select | all threads |
| `wspace_asym_util`: `BasicBuf`, `TxDataBuf`, `RxRcvBuf` | ring with head, current and tail counters, a mutex per slot | Enqueue, Dequeue, Acquire*Lock, UpdateBatchSendTime | not called by the controller |
| `TxRawBuf`, `AckPkt` | deque of the fates of raw packets; nacks relative to a first one | PushPktStatus, PopPktStatus, PushNack, ParseNack | not called by the controller |
| `AckContext`, `FeedbackHandler`, packet headers, `GPSLogger` | a flag with condition variables; fields; a file | accessors | headers only |
| `MonotonicTimer`, `TIME` | clock values | arithmetic | `UpdateRoutes` (duration), `PrintRoutes` |
| `pthread_wrapper.h` | - | POSIX calls with assertions | all |
| `base_rate.h`, `test_packet_scheduler`, Makefile, `c_lib.h`, `cpp_lib.h`, `configure_nat.sh` | - | - | - |

### What is hard about it, and what correct means

- **PktQueue and ActiveList.** `Enqueue` touches the queue and the list in two steps with no
  common lock, `Dequeue` peeks and pops in two. Correct: no packet waits in a queue that
  nobody will look at, the assertion in `PktQueue::Dequeue` holds, no wakeup is lost.
- **PktScheduler.** Deficits must carry over (a packet may cost more than a quantum) and must
  not accumulate while a client is idle; `ComputeQuantum` replaces all the stats and clears
  queues while forwarders wait for `lock_` with a client id in their hand.
- **RecvFromBS and BSStatsTable.** Reports are datagrams, lost, repeated, reordered, and the
  table is copied in one step and cleared in a later one. Correct: no report counts twice or
  after a newer one of its link.
- **RoutingTable and ComputeRoutes.** Routes, rates and contention ids are put together in
  several steps; a client must be served at the rate for which its base station was chosen,
  in the domain of that base station, and rates must be positive since `Dequeue` divides by them.
- **ReadTun, ForwardToBS.** Packets of a client should leave once and in order; several
  forwarders share a scheduler whenever base stations share a channel. ReadTun looks a route up
  and enqueues later, ForwardToBS looks it up again, and ComputeRoutes changes it and the
  schedulers one after the other in between. Correct: once its client has a route nothing is sent
  twice, only a client that moves loses packets other than to a full queue, and little is left behind where it was.
- **BasicBuf, TxDataBuf.** Three threads share a ring with a lock for its pointers and one for each
  slot. Pointers move, and waiters are signalled, before a slot is filled or emptied, the number
  of a packet is read without the lock, and retransmissions move a pointer back. Correct: no slot is
  used by two packets, no packet is forgotten, nobody waits for ever.
- **MonotonicTimer, the timed waits, headers.** Carries, borrows, remainders and bytes that wrap.

PROJECT.json lists every hazard with its line.

## Modules

| module | models | extends |
|---|---|---|
| `FairShare` | the fairness modes and the charge for a packet, as operators | - |
| `PktScheduler` | one PktScheduler with its PktQueues, ActiveList and calling threads | `FairShare` |
| `RoundRobin` | what a PktScheduler promises: deficit round robin with atomic steps | `FairShare` |
| `SchedRefinement` | the mapping by which `PktScheduler` implements `RoundRobin` | `PktScheduler` |
| `Routing` | BSStatsTable, RoutingTable, RecvFromBS, ComputeRoutes | - |
| `Controller` | ReadTun, ForwardToBS and ComputeRoutes over several schedulers | - |
| `SendBuffer` | BasicBuf and TxDataBuf with the threads that use them | - |
| `RawFeedback` | TxRawBuf and AckPkt | - |
| `Timers` | MonotonicTimer, the difference of TIME, the deadlines of timed waits, as operators | - |
| `Headers` | AthDataHeader, AthCodeHeader and the rate codes, as operators | - |
| `MCPktScheduler`, `MCRouting`, `MCController` | small instances for TLC | the above |
| `MCArithmetic` | the inputs of `FairShare`, `Timers` and `Headers` | these three |
| `PktSchedulerProofs` | theorems about `PktScheduler` | `PktScheduler` |
| `SchedRefinementProofs` | the budget of a round and the refinement | `SchedRefinement`, `PktSchedulerProofs`, `FoldProofs` |
| `RoutingProofs`, `ControllerProofs`, `SendBufferProofs`, `RawFeedbackProofs` | theorems about the module of that name | that module |
| `ArithmeticProofs` | theorems about `Timers`, `Headers`, `FairShare` | `MCArithmetic`, `FoldProofs` |
| `FoldProofs` | sums and products over finite sets | - |

### FairShare

Quanta and counters are doubles in the program. Here a time is a whole number of ticks,
`Ticks` to the microsecond, and a quotient is rounded down to a tick. `Duration` keeps the
truncation of the code: `int pkt_duration = len * 8.0 / throughput` is a whole number of
microseconds. The weights `1/t` of `kEqualThroughput` are taken over a common denominator.

### PktScheduler

| variable | code |
|---|---|
| `queues`, `hasQueue` | `queues_[c]->q_`; the keys of `queues_` |
| `ids`, `exist` | `active_list_.ids_`, `exist_` |
| `served`, `throughput`, `quantum`, `counter` | the keys and values of `stats_` (`client_ids_` has the same ids) |
| `owner` | the holder of `PktScheduler::lock_` |
| `pc`, `cur`, `top`, `pkts` | where a forwarder is; its `client_id`, `len`, `pkts` |
| `toClear` | the loop of `ComputeQuantum` over `queues_` |
| `pend` | `ReadTun` between the two calls of `Enqueue` |
| `oseq`, `lastSent` | `client_original_seq_tbl_`; history of what was sent |

Granularity. Methods of `PktQueue` and `ActiveList` hold their mutex throughout and wait for
nothing else inside it, so each call is one step; a wait ends a step. A forwarder that
holds `lock_` does `Peek`, `Pop` and `Finish*` as separate steps, in between which ReadTun
enqueues and appends: that is where the hard interleavings are. Taking a lock is merged with
the first step under it and giving it up with the last one, since nothing else can be observed
between them: `lock_` is released in the step that appends the backlogged client. A signal
wakes any one waiter, or none if nobody waits; a woken thread and a newly arriving one compete
for the list; a waiter may wake without a signal.

`ComputeQuantum` is `BeginCompute` (lock and new stats), `ClearQueue` for each queue to clear,
and `EndCompute` (quanta, unlock). Between the first two ReadTun can still put packets in.
The arguments are any rates for any set of clients in `ClientSets`, which is what `Routing`
makes of arbitrary reports.

Left out: packet contents, sockets, the sleep after each packet, exhaustion of memory, and a `len`
of 0, with which the program exits. ReadTun enqueues only for a client that has a queue: the program
gives each scheduler all the clients from the start.

### Routing

| variable | code |
|---|---|
| `currentSeq` | `current_seq` of RecvFromBS |
| `table` | `bs_stats_tbl_.stats_` |
| `stats`, `route` | `routing_tbl_.stats_`, `route_` (its entries for clients) |
| `throughputs`, `pc`, `todo` | the locals of ComputeRoutes and where it is |
| `given` | the last argument of each domain's `ComputeQuantum` |
| `bsIndex` | `bs_index` |
| `used` | history: the number of each link's report in the last copy that had one |

A report may arrive at any step, in any order, never, or again. Reports about unknown base
stations or clients change nothing and are left out, and so are the entries of `route_` for base
stations, which Init makes, nobody looks up and the first update removes. The optimizer is an R
script outside the repository: the model takes any route file with lines for the first n clients, each
a base station or -1. `kDuplication` makes routes exactly as `kMaxThroughput` does.

### RoundRobin and SchedRefinement

`RoundRobin` is the scheduler as the rest of the program wants it: a packet arrives, a round gives
one client its quantum and takes the packets that credit and quantum pay for, an update replaces
rates and quanta, each in one step, with no locks and no list. The mapping lets a round happen at
the last `PeekTopPktSize` of Dequeue, when the batch is settled: before it, packets in the batch
count as queued and the quantum as not given. An update happens at its first step. So the
property is that the interleavings of ReadTun, the forwarders and ComputeQuantum cannot be told
from atomic calls: packets leave in order and are lost only to a full queue or for want of stats, a round
is paid for in full and goes on as long as it can.

### Controller

| variable | code |
|---|---|
| `route` | `routing_tbl_.route_` |
| `oseq` | `client_original_seq_tbl_` |
| `reading` | the loop of ReadTun over `packet_scheduler_tbl_`, or its one scheduler |
| `queues`, `served` | of each scheduler: `queues_`, the keys of `stats_` |
| `pkts` | `pkts` and `client_id` of each ForwardToBS |
| `todo` | the loop of ComputeRoutes over `packet_scheduler_tbl_` |
| `mode` | `scheduling_mode_` |
| `sent`, `spread`, `dropped`, `moved` | history |

It composes what the other modules have in detail. A scheduler here is `RoundRobin` without times:
a round takes any number of packets from the front of a served client's queue, an update clears the
queues of the others. Routes are any that give each client a base station; the optimizer may give
one to only some of the clients. FindRoute and each Enqueue, Dequeue, Write and ComputeQuantum are one step, as their
locks make them; ReadTun, ForwardToBS and ComputeRoutes make several, and the others come in
between. There is a forwarder for each base station, as main creates one for each entry of
`conflict_graph_`, and those of one domain share its scheduler. A packet that finds the queue of `MaxSize` packets
full is dropped there with its number used; `dropped` keeps which. `MaxSeq` and `MaxTotal` cap the packets to each client and to all of them.
The address that gives the client, packets to unknown clients, which ReadTun drops, and the
`route_` entries of base stations, which the first update removes, are left out.

### SendBuffer

| variable | code |
|---|---|
| `head`, `curr`, `tail` | `head_pt_`, `curr_pt_`, `tail_pt_`, modulo `PtSpace` for 2^32 |
| `slots` | `book_keep_arr_` with the packet in `pkt_buf_` |
| `qlock`, `elock` | the holders of `qlock_` and of `lock_arr_` |
| `pc`, `index`, `seq` | where each thread is, its local `index`, `seq_num` of EnqueuePkt |
| `batch` | `seq_arr` of UpdateBatchSendTime |
| `aborted` | an assertion has stopped the program |
| `put`, `times` | history: packets put in; how often each was sent |

The controller does not call the buffer; the base station's programs do. The module takes from the
class what each of its threads does: Reader calls EnqueuePkt, Sender DequeuePkt and
UpdateBatchSendTime, Handler AcquireHeadLock, set_curr_pt and DisableRetransmission. A step begins or
ends where a thread takes or gives up one of the two kinds of locks: between AcquireTailLock and the
copy of the packet the head may move, and the other way round. What a caller must keep to is in the
actions `Acked` and `Nacked`, which are external: Handler frees, or has sent again, only packets whose batch has
gone out, and frees only packets that `curr` has passed. Without the latter AcquireHeadLock, which looks
at `tail_pt_` only, lets the head overtake `curr`. `DisableRetransmission` takes any slot, empty ones and those
of a batch too, with one exception: not a packet that is marked to be sent again, which the class leaves to its
caller and without which the assertion on `num_retrans` in DequeuePkt fails. A timed wait that returns EINVAL (see
`Timers`) returns to the loop with the lock held and waits again: no step of its own.

### Timers and Headers

Operators, one for each method. `Thousand` stands for 1000 in all three units, so the carries and
remainders are those of the code in small numbers. Values are below 2^53 ns, where the doubles
of GetNSec and of the constructor are exact. The constructor rounds toward zero, so the timer of a negative time has
negative nanoseconds where `operator-=` gives positive ones: `ExactTimers` says when the two are the same. `Deadline` has the `>` of the code: microseconds are
carried until at most a second of them is left, so a wait that ends on a full second gets an invalid
timespec. A header is a record; what stops the program (an assertion, Perror) is an operator
that ends in `Stops`.

### RawFeedback

| variable | code |
|---|---|
| `info`, `base` | the `status_` of the records of `info_deq_`; the packet before its front |
| `reports` | history: what `PopPktStatus`, `PushPktStatus` and `ClearPktStatus` put into `status_vec` |
| `aborted` | the assertion in `PushPkts` has failed |
| `handled`, `repeated` | history: the AckPkts handled, and whether one was handled again |
| `sent`, `got`, `told`, `net` | environment: the packets sent and received, the feedback on its way |

The base station that pushes records and the client that sends feedback are other programs. Here
the sender numbers its packets consecutively, the client tells of one stretch of packets after the
other, of at most `AckWindow` lost ones, and an AckPkt comes at any later time, or never, or again. Numbers wrap. A feedback that
is older than half the number space, and a stretch of more than 2^16 packets, are excluded. A stretch of just
2^16 has a `num_pkts_` of 0, as a uint16 wraps: PushPkts then looks for good packets from after its end and finds none.
`PushPkts` stops at the first nack without a record, keeps the marks it made, and erases unsettled
records before the first packet of the feedback without handing them out: the model does the same.

## Runs

| run | question | bounds |
|---|---|---|
| `sched_fixed` | do queue, list, lock and deficit fit together with two forwarders? | 2 clients always in the domain, 2 forwarders (symmetric), queues of 2, 3 packets per client, lengths that cost half and the whole of a quantum |
| `sched_live` | is every queued packet sent, and in order? | 1 forwarder, 2 packets per client, 2 rates, equal-throughput quanta, some smaller than a packet's cost |
| `sched_stranded` | may a client's packet be forgotten when the client comes back? (yes) | 1 forwarder, 2 clients |
| `sched_min_throughput` | are low rates raised to `min_throughput`? (no) | as above |
| `sched_refines` | and when clients join and leave? does the scheduler look like atomic rounds? | 2 forwarders, 2 clients, one of them at the start, both may join and leave, 2 packets per client, 2 lengths |
| `arithmetic` | do the three modes divide the round as their names say, are timers, deadlines and headers what they should be? | 3 clients, 6 rates, all subsets; all pairs of timers below 3 s, divisors to 6, waits to 20 ms, with 3 for 1000; counts to 11, with bytes modulo 8 |
| `controller` | what can a move do to a packet on its way? | 3 base stations, 2 of them in one domain, with a forwarder each; 2 packets to 2 clients, any number of updates; maximal throughput, duplication and optimizer |
| `controller_full` | which packets are lost? does only a full queue cost any? | the same base stations and modes; 3 packets to one client, queues of 2 |
| `send_buffer` | do the threads of the ring keep out of each other's way? | 3 slots, 7 packets, pointers modulo 7, 1 retransmission, batches of 2 |
| `routing` | reports, copy, clear, routes, split | 2 base stations on 2 channels, 2 clients, 2 reports in all, rates 0, 2 and 3 with MIN_THROUGHPUT 1, `bs_index` modulo 3 |
| `raw_feedback` | does every raw packet get its own fate, once, and does the assertion in PushPkts hold unless an AckPkt is handled twice? | 5 packets, room for 4 records, 3 nacks to an AckPkt, numbers modulo 16 from 13 on, distances and counts modulo 5 |
| `routing_get_stats` | does GetStats only update existing entries? (no) | as `routing` |

Why the bounds are enough. Two forwarders are needed for a signal that meets a thread already
awake and for competition for `lock_`; two clients for competition for the list; a queue of two
packets for a batch, a packet left behind and a full queue. Three numbers per client let a
queue fill up, drop and go on. `MaxSeq` and `MaxTotal` only cap counters in guards. Lengths and
rates are chosen so that a packet costs less than, as much as and more than a quantum.
Five raw packets against four records fill the buffer, give it up and go on, and let feedback come for
records that are gone in whole or in part; the numbers wrap after the third packet, and an AckPkt about all five has
a count of 0. `IndexMod` 3 with two base stations has the remainder of the wrapped index jump, as 2^32 does for
any number of base stations that is no power of two.
Seven packets in a ring of three with pointers modulo 7 fill it, use every slot again and take the pointers past the
wrap, to a slot that the packet before has, as 3 does not divide 7, nor BUF_SIZE 2^32.
In `controller_full` the third packet finds the queue full, or gets in behind one that was taken out, and moves and
updates come in between. In `controller` the other client keeps a domain told while the first is away; two packets are what
`AtMostOneStale` needs to fail, and what two forwarders of a domain need to hold one each. Clients are
alike, and so are the two base stations of a domain: the run is reduced by these symmetries.

### Properties worth reading

- `NotStranded`: a served client with packets is in the list, in the hand of a forwarder that
  will look again, or about to be appended. It is what makes "track clients with non-empty
  queues" true in spite of the two-step Enqueue.
- `CreditCarried`, `RoundBudget`: bounds of the deficit between and within rounds. What a round gives
  exceeds the quantum, if at all, by less than the time of the longest packet; a packet that takes less
  than a microsecond is free, as `Duration` rounds to 0, so the bound cannot be stated by packets.
- `NoLostWakeup`: one signal per append is enough for any number of forwarders.
- `HandedOnce`, `SentInOrder`: the numbers of a client's packets in batches and queue.
- `Delivered`: leads-to under fairness.
- `ImplementsRoundRobin`: the refinement above.
- `GoodIsReceived`, `NackedIsLost`, `ReportedOnce`, `RecordsConsecutive`, `NeverNackedTwice`: the fate of raw packets.
- `SentOnce`: a packet read when its client had a route is sent once, however the client moves between
  numbering, queueing and sending; with the optimizer, which may take the route away meanwhile, at
  most once through each base station; without a route, at most once for every scheduler.
- `NotLost`: a client whose domain never changes loses packets only to a full queue, also of those that came before
  the first routes, and a queue is full only after at least as many earlier packets have entered it.
- `AtMostOneStale`: what moves leave behind in a scheduler, of all the clients it does not serve, is at most the
  one packet ReadTun had in hand. Such a packet is what `sched_stranded` finds later. A scheduler that
  is not told (its domain has no client any more) still serves the old ones, and the property is about it too,
  unless the optimizer is at work: a client it leaves without a route has packets put into every scheduler, and
  the one that is not told keeps them.
- `AssertionsHold`: the assertions of TxDataBuf are never reached before the 2^32nd packet; the slot
  Reader gets is empty although the pointers say so too early.
- `FoundBySeq`: the number that EnqueuePkt reads before it takes the lock is right.
- `PointersInOrder`, `SentInOrder`, `EachIsSent`: no packet is overtaken or forgotten though `curr` goes back.
- `ReaderSleepsWhileFull`, `QueueIsFreed`: no lost wake-up, no circle of locks.
- `TimersExact`, `QuotientsNear`, `DeadlinesExact`, `HeadersReadBack`.
- `FreshReports`, `ServedByItsDomain`, `BestRate`, `RatesPositive`, `EveryBSHasTurns` of Routing.

### Fairness

Threads run on a preemptive scheduler and loop forever, so each forwarder is weakly fair, ReadTun
finishes an Enqueue it has begun and ComputeRoutes an update it has begun. Arrivals, reports,
spurious wakeups and the start of updates are not fair. `lock_` is an unfair mutex, but only
ComputeRoutes and one forwarder compete for it in `sched_live`, and `Delivered` has the premise
that updates cease: every ComputeQuantum sets the counters to 0, so a client whose packet needs
several rounds may wait as long as updates come faster than its rounds. With an update every
100 ms and rounds of microseconds to milliseconds this is the normal case, but nothing in the
code guarantees it. `EveryBSHasTurns` needs only that ComputeRoutes goes on.

In SendBuffer the three threads are weakly fair inside their calls, and Sender calls DequeuePkt again
and again, or UpdateBatchSendTime when its batch is full; whether Reader and Handler call at all
is left open. `Timeout` is a step of Sender and shares its fairness: the wait of DequeuePkt has a finite deadline, so a
Sender that is not signalled comes back from it and calls again. It has to, as Handler moves `curr` back without a
signal. Handler and Reader sleep without a deadline, and spurious wakeups are not fair: Reader must be signalled.

## Findings

1. `sched_stranded`: ReadTun looks a client's route up, ComputeQuantum drops the client from that
   domain and clears its queue, the packet is enqueued and the client appended; Dequeue removes
   the client and, as it has no stats, forgets it. When the client is served again there, its
   queue has a packet and it is in no list until its next packet arrives.
2. `sched_min_throughput`: `TestComputeQuantum` expects a reported rate below the constructor's
   `min_throughput` to be raised to it. The code takes it as it is, and the test program stops
   at its assertion (it also expects quanta truncated to integers).
3. `routing_get_stats`: the comment on `GetStats` says it updates only existing values; the code
   assigns the whole map. As the table is cleared after each update, a client none of whose base
   stations reported in the last interval goes to the default base station at MIN_THROUGHPUT.

Not a finding, but a condition on callers: `NeverNackedTwice` holds only up to the first AckPkt handled twice. If the
first records of a stretch have been cleared, PushPkts marks the nacked ones and returns; should
the same AckPkt be handled again, its assertion fails. Whoever calls PopPktStatus has to drop repeated
AckPkts (they carry `ack_seq_`); no caller is in this repository.

## Proofs

All invariants and action properties of the passing runs, and the refinement, are proved for every value
of the constants that the assumptions allow.

| module | theorem | says |
|---|---|---|
| `PktSchedulerProofs` | `Invariance` | `Spec => []IInv` |
| | `TypeCorrect`, `DequeueIsSafe`, `CreditIsBounded`, `NoWakeupIsLost` | `TypeOK`, `PopIsSafe`, `CreditCarried`, `NoLostWakeup` |
| | `NobodyIsStranded` | `NotStranded`, if clients never leave the domain |
| | `OrderInvariance`, `HandedOnceHolds` | `HandedOnce`, for any number of forwarders |
| | `SentInOrderHolds` | `SentInOrder`, with one forwarder |
| `SchedRefinementProofs` | `RoundBudgetHolds` | `RoundBudget`, if there is a longest packet |
| | `NoQueueNoPackets` | no packets where there is no queue |
| | `SchedulerImplementsRoundRobin` | `Spec => ImplementsRoundRobin` |
| `RoutingProofs` | `Invariance`, `TypeCorrect`, `ServedByItsDomainHolds`, `BestRateHolds`, `RatesPositiveHolds`, `FreshReportsHolds` | the five properties and `TypeOK` |
| `ControllerProofs` | `Invariance`, `SentOnceHolds`, `NotLostHolds`, `AtMostOneStaleHolds` | the three properties |
| `SendBufferProofs` | `Invariance`, `TypeCorrect`, `PointersInOrderHolds`, `ReaderSleepsWhileFullHolds`, `AssertionsHoldHolds`, `FoundBySeqHolds`, `SentInOrderHolds` | the six invariants |
| `RawFeedbackProofs` | `Invariance`, `GoodIsReceivedHolds`, `NackedIsLostHolds`, `ReportedOnceHolds`, `RecordsConsecutiveHolds`, `NeverNackedTwiceHolds` | the five properties |
| `ArithmeticProofs` | `ExactTimersHold`, `NearQuotientHolds`, `ExactDeadlineHolds`, `DataReadBackHolds`, `CodeReadBackHolds` | for all timers, waits and headers |
| | `EqualTimeFair`, `ProportionalThroughputFair`, `EqualThroughputIsFair` | for all finite sets of clients and positive rates |
| | `TimersExactHolds`, `QuotientsNearHolds`, `DeadlinesExactHolds`, `HeadersReadBackHolds`, `RoundFilledHolds`, `ProportionalFairHolds`, `EqualThroughputFairHolds` | the same as properties of the runs |
| `FoldProofs` | only lemmas for the two above | the recursion of sums and products over finite sets |

### Assumptions

Each module names its own (`SchedulerAssumption`, `QuantumAssumption`, `RoutingAssumption`,
`ControllerAssumption`, `SendBufferAssumption`, `RawFeedbackAssumption`, `FairShareAssumption`,
`ThousandAssumption`, `HeaderAssumption`, `InputAssumption`), and TLC evaluates them in the runs. Clients,
forwarders and domains are finite sets; numbers are in their ranges. Those worth a word:

- `QuantumAssumption` asks that quanta are natural numbers. The `*Fair` theorems prove that the three
  fairness modes give such quanta, so it is not a restriction.
- `SendBuffer` needs pointers that range over more than twice the ring, `RawFeedback` sequence numbers that
  range over twice as much as the 16-bit distances and no more packets than there are distances. What
  `AssertionsHold` and `FoundBySeq` say ends, as the properties do, with the first wrap of the numbers;
  the other theorems of `SendBuffer` go on past it.
- `NobodyIsStranded` is about a domain no client leaves; otherwise finding 1 refutes it.
  `SentInOrderHolds` is about one forwarder; two of a scheduler do reorder batches.
- `RoundBudgetHolds` asks that `Lens` has a longest member. Packets are at most an Ethernet frame.

### Arguments

**PktScheduler.** `PopIsSafe` is not inductive by itself. It needs that a forwarder is between Lock and UnLock exactly
when it is the owner (`LockOK`), that the client of the owner keeps its stats (`HandOK`) and that
only queues of clients without stats are cleared, and only under the lock (`StatsOK`): so while a
forwarder is at "pop" nobody else takes from its client's queue, and ReadTun only adds at the other end.
`CreditCarried` needs in addition that a forwarder that gave up for lack of time still lacks it
when it unlocks (`BackloggedIsShort`). `NoLostWakeup` is a count: each append adds one id and
wakes one sleeper, each removal of an id uses up at most one awakened thread, and a thread goes to
sleep only on an empty list; it rests on facts about cardinalities, and on `ListOK` for the
agreement of `ids` and `exist`. `IInv` is the conjunction, and run `sched_refines` checks it with TLC.
The proof has one lemma per action and one step per conjunct. The order of packets (`InOrder`) is by sets of numbers: those
of a batch are below those of the queue behind it, all are at most the last one ReadTun gave, and two batches
of one client are disjoint. For `SentInOrder` the number last sent is below all of these (`SentBefore`).

**Refinement.** The abstract variables are functions of the concrete ones that differ from them only for the
client of the owner: its packets in the batch still count as queued, its counter as that of the last round. The
lemmas first say how these bars change in each action (`BarsAre`, `BarsStay`); then every action but three leaves them alone. The
three are `Enqueue` (an arrival), the first step of ComputeQuantum (an update, for which a client without a queue must have no
packets, `NoQueueNoPackets`), and the last Peek of a round. There the batch has to be a longest one that credit and
quantum pay for: `RoundBudget`'s bookkeeping gives that its airtime and what is left make up credit and quantum, and
the failed test that the next packet takes more than is left. The airtime of a batch is a sum over a sequence; it grows
by a packet's duration when one is appended (`AirtimeAppend`).

**Routing.** The invariant follows an update: a report in the table is newer than the one last copied until it
is copied (`SeqsOK`, which gives `FreshReports`), the rates are those of the routes (`Routed`, `Chosen`), and the
domains already told have them (`ToldOK`).

**Controller.** A packet is in one place of a domain (`InOnePlace`); one put into every scheduler was sent by each base station
at most once for each domain it no longer waits in, any other waits in one domain, unsent, or was sent (`Accounted`).
`Kept` says that a client that has not moved has each packet everywhere it was put, unless it was sent or dropped there.
A packet was dropped only after a queue full of others: those in the queue are earlier ones that were not dropped, each
once, and the queue has `MaxSize` of them (`FullQueueCounts`, `DroppedOK`). `AtMostOneStale` needs what ReadTun has in
hand: while its packet is for a scheduler that has forgotten the client, nothing stale is there yet (`StaleOK`). It also needs
that a scheduler with clients serves just these once it is told, and that before any routes all serve everyone
(`ServedOK`): so one that is not told can only lose clients by an optimizer's doing. One lemma for each action
says which packets wait where after it.

**SendBuffer.** Pointers are followed as numbers that do not wrap: how many packets head and tail have passed (`Gone`, `Passed`).
The slot k places behind the head holds packet `Gone + k + 1` unless Reader is still to store it (`RingOK`); every packet before
`curr` was sent or is the one Sender has in hand (`PrefixOK`); an assertion could fail only if a number did not match its
slot (`NumberedOK`).

**RawFeedback.** Every AckPkt on the way tells of a stretch of packets as they were received (`NetOK`), and no two of
the same packet (`Disjoint`); a mark is right and was told by an AckPkt that was handled (`MarksOK`). The wrapped numbers
name the right records since all distances are below half the number space.

**Arithmetic.** Quotients and remainders are taken apart by `DivModUnique`. The weights `1/t` of `kEqualThroughput` need that the product of all rates is
divisible by each and positive, and that shares of a whole, each rounded down, miss it by less than one tick per client.

**Sums.** The prover has no induction over data, and the community modules define sums by recursion over sets without stating facts.
`FoldProofs` shows by a smallest counterexample (subsets of a finite set are well-founded) that the recursion
has exactly one solution, and each fact after it the same way (`SetGrows`).

### Only model-checked

`Delivered`, `EveryBSHasTurns`, `EachIsSent` and `QueueIsFreed`: liveness under fairness, and ENABLED with it, are out
of the prover's reach. They hold in the small instances of their runs. The three runs that show a violation have nothing to prove.

## Not modelled

- Sockets and the tun device (pure I/O). `Tun::Read` asserts `nread > 0` of an unsigned number, so an
  error passes as 65535; the modules take reads that succeed.
- `GetThroughput` and the sleep after a packet (timing only), logs, `GPSLogger`, the command line and the
  conflict file.
- `RxRcvBuf` (its AcquireHeadLock leaves the head to its callers), the flag of `AckContext` and
  `FeedbackHandler`: their protocols are in the programs of the base station and the client.
- The other headers, which are fields with accessors; packet contents, lengths and time stamps of the ring.
- `base_rate.h` but for its list of rates (nothing implements the class), tests and build files.

## Plan

1. Drift: how far two backlogged clients can differ in airtime over several rounds, as an invariant of
   `RoundRobin`, carried over to the scheduler by the refinement theorem.
2. A base station that restarts and numbers its reports from the beginning again (its side is in another
   program).
