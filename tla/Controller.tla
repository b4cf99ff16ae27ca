------------------------------ MODULE Controller ------------------------------
(***************************************************************************)
(* The way of a packet through the controller (wspace_controller.cc):      *)
(*                                                                         *)
(*   - ReadTun numbers it and puts it into the scheduler of the contention *)
(*     domain of its client, or into every one while there is no route;    *)
(*   - a ForwardToBS for each base station takes a client's packets from   *)
(*     the scheduler of the station's domain and sends them to the base    *)
(*     station the client then has;                                        *)
(*   - ComputeRoutes makes new routes and then tells the schedulers of     *)
(*     the domains that have clients.                                      *)
(*                                                                         *)
(* A scheduler is what RoundRobin says of it, without the times: a round   *)
(* takes any number of packets from the front of the queue of a client     *)
(* that is served.  Module Routing has how the routes are found.           *)
(***************************************************************************)
EXTENDS Integers, Sequences, Functions, FiniteSets

CONSTANTS
  Clients,        (* client_ids_                                           *)
  BSs,            (* bs_ids_                                               *)
  Domains,        (* the contention ids                                    *)
  ConflictGraph,  (* conflict_graph_                                       *)
  MaxSize,        (* kMaxSize of each queue                                *)
  MaxSeq,         (* bound: the packets to each client                     *)
  MaxTotal        (* bound: the packets to all clients together            *)

ASSUME ControllerAssumption ==
  /\ ConflictGraph \in [BSs -> Domains]
  /\ Domains = {ConflictGraph[b] : b \in BSs}
  /\ IsFiniteSet(Domains)
  /\ MaxSize \in Nat /\ MaxSeq \in Nat /\ MaxTotal \in Nat

VARIABLES
  mode,        (* scheduling_mode_                                         *)
  route,       (* route_: the base station of each client that has one     *)
  oseq,        (* client_original_seq_tbl_                                 *)
  reading,     (* the domains, each with the client, that ReadTun's packet *)
               (* is still to be put into                                *)
  queues,      (* of each domain's scheduler, for each client              *)
  served,      (* the clients in stats_ of each scheduler                  *)
  pkts,        (* the packets each ForwardToBS, named by the base station  *)
               (* it was started for, has still to send                    *)
  todo,        (* the domains ComputeRoutes has still to tell              *)
  sent,        (* history: how often each base station got each packet     *)
  spread,      (* history: packets read when their client had no route     *)
  dropped,     (* history: packets that found the queue of a domain full   *)
  moved        (* history: clients that had to leave a domain              *)

vars == <<mode, route, oseq, reading, queues, served, pkts, todo,
          sent, spread, dropped, moved>>

HasRoute(c) == c \in DOMAIN route
DomainOf(c) == ConflictGraph[route[c]]

-----------------------------------------------------------------------------
(* ReadTun *)

EnqueueIn(c) == IF HasRoute(c) THEN {DomainOf(c)} ELSE Domains

(* The bound MaxTotal. *)
InBounds(seqs) == SumFunction(seqs) < MaxTotal

(* The route is looked up once, before the packet is put anywhere.  The    *)
(* packet keeps its number, oseq, until it is in all of them.              *)
ReadTun(c) ==
  /\ reading = {}
  /\ oseq[c] < MaxSeq /\ InBounds(oseq)
  /\ oseq' = [oseq EXCEPT ![c] = @ + 1]
  /\ reading' = EnqueueIn(c) \X {c}
  /\ spread' = IF HasRoute(c) THEN spread ELSE spread \cup {<<c, oseq'[c]>>}
  /\ UNCHANGED <<mode, route, queues, served, pkts, todo, sent, dropped, moved>>

(* Mutant: a queue that is full one packet early. *)
FullEarly(q) == Len(q) + 1 >= MaxSize

IsFull(q) == Len(q) = MaxSize

(* A packet that finds the queue full is dropped; its number is used.      *)
Enqueue(d, c) ==
  LET q == queues[d][c] IN
  /\ <<d, c>> \in reading
  /\ \/ /\ IsFull(q)
        /\ dropped' = dropped \cup {<<d, c, oseq[c]>>}
        /\ UNCHANGED queues
     \/ /\ ~IsFull(q)
        /\ queues' = [queues EXCEPT ![d][c] = Append(q, oseq[c])]
        /\ UNCHANGED dropped
  /\ reading' = reading \ {<<d, c>>}
  /\ UNCHANGED <<mode, route, oseq, served, pkts, todo, sent, spread, moved>>

-----------------------------------------------------------------------------
(* ForwardToBS *)

Dequeue(f, c) ==
  LET d == ConflictGraph[f]
      q == queues[d][c]
  IN
  /\ pkts[f] = <<>>
  /\ c \in served[d]
  /\ \E n \in 1..Len(q) :
       /\ pkts' = [pkts EXCEPT ![f] = [i \in 1..n |-> [client |-> c, seq |-> q[i]]]]
       /\ queues' = [queues EXCEPT ![d][c] = SubSeq(q, n + 1, Len(q))]
  /\ UNCHANGED <<mode, route, oseq, reading, served, todo, sent, spread, dropped, moved>>

SendTo(c) == IF HasRoute(c) /\ mode # "Duplication" THEN {route[c]} ELSE BSs

Send(f) ==
  LET p == Head(pkts[f]) IN
  /\ pkts[f] # <<>>
  /\ sent' = [sent EXCEPT ![p.client][p.seq] =
                [b \in BSs |-> @[b] + IF b \in SendTo(p.client) THEN 1 ELSE 0]]
  /\ pkts' = [pkts EXCEPT ![f] = Tail(@)]
  /\ UNCHANGED <<mode, route, oseq, reading, queues, served, todo, spread, dropped, moved>>

-----------------------------------------------------------------------------
(* ComputeRoutes *)

(* Routes of some of the clients.                                          *)
PartialRoutes == UNION {[S -> BSs] : S \in SUBSET Clients}

(* What UpdateRoutes leaves when it gives the lock back: every mode but    *)
(* the optimizer has a route for every client.  (Mutant: PartialRoutes,    *)
(* seen while route_ is filled.)                                           *)
NewRoutes == IF mode = "Optimizer" THEN PartialRoutes ELSE [Clients -> BSs]

(* The clients that have to leave a domain, or are left without a route.   *)
Leaving(r) ==
  {c \in Clients : c \in DOMAIN r => HasRoute(c) /\ ConflictGraph[r[c]] # DomainOf(c)}

UpdateRoutes ==
  /\ todo = {}
  /\ \E r \in NewRoutes :
       /\ route' = r
       /\ todo' = {ConflictGraph[r[c]] : c \in DOMAIN r}
       /\ moved' = moved \cup Leaving(r)
  /\ UNCHANGED <<mode, oseq, reading, queues, served, pkts, sent, spread, dropped>>

(* Mutant: the queues of the other clients are kept. *)
KeepAll(q, d) == q

ServedBy(d) == {c \in DOMAIN route : DomainOf(c) = d}

ClearOthers(q, d) == [c \in Clients |-> IF c \in ServedBy(d) THEN q[c] ELSE <<>>]

(* Packets ForwardToBS has taken are not touched. *)
ComputeQuantum(d) ==
  /\ d \in todo
  /\ served' = [served EXCEPT ![d] = ServedBy(d)]
  /\ queues' = [queues EXCEPT ![d] = ClearOthers(@, d)]
  /\ todo' = todo \ {d}
  /\ UNCHANGED <<mode, route, oseq, reading, pkts, sent, spread, dropped, moved>>

-----------------------------------------------------------------------------

(* Every scheduler starts with all the clients.  kRoundRobin is, up to the *)
(* choice of the routes, like kMaxThroughput.                              *)
Init ==
  /\ mode \in {"MaxThroughput", "Duplication", "Optimizer"}
  /\ route = [c \in {} |-> 0]
  /\ oseq = [c \in Clients |-> 0]
  /\ reading = {}
  /\ queues = [d \in Domains |-> [c \in Clients |-> <<>>]]
  /\ served = [d \in Domains |-> Clients]
  /\ pkts = [f \in BSs |-> <<>>]
  /\ todo = {}
  /\ sent = [c \in Clients |-> [n \in 1..MaxSeq |-> [b \in BSs |-> 0]]]
  /\ spread = {}
  /\ dropped = {}
  /\ moved = {}

Next ==
  \/ \E c \in Clients : ReadTun(c)
  \/ \E d \in Domains : ComputeQuantum(d)
  \/ \E d \in Domains, c \in Clients : Enqueue(d, c)
  \/ \E f \in BSs : Send(f) \/ \E c \in Clients : Dequeue(f, c)
  \/ UpdateRoutes

Spec == Init /\ [][Next]_vars

-----------------------------------------------------------------------------
(* Properties *)

(* However its client moves between the threads, a packet read when the    *)
(* client had a route is sent to no base station twice, and to only one    *)
(* unless packets are duplicated or the optimizer takes routes away.  One  *)
(* read without a route is sent to each at most once for every scheduler.  *)
SentOnce ==
  \A c \in Clients : \A n \in 1..oseq[c] :
    IF <<c, n>> \in spread
    THEN \A b \in BSs : sent[c][n][b] <= Cardinality(Domains)
    ELSE /\ \A b \in BSs : sent[c][n][b] <= 1
         /\ mode = "MaxThroughput" =>
              \A b, b2 \in BSs : sent[c][n][b] > 0 /\ sent[c][n][b2] > 0 => b = b2

(* Where packet n of client c waits: for ReadTun to put it into domain d,  *)
(* in a queue there, in the hand of a forwarder.                           *)
InReading(d, c, n) == <<d, c>> \in reading /\ n = oseq[c]
InQueue(d, c, n) == \E i \in DOMAIN queues[d][c] : queues[d][c][i] = n
InHand(f, c, n) == \E i \in DOMAIN pkts[f] : pkts[f][i] = [client |-> c, seq |-> n]

Waits(d, c, n) ==
  \/ InReading(d, c, n)
  \/ InQueue(d, c, n)
  \/ \E f \in BSs : ConflictGraph[f] = d /\ InHand(f, c, n)

(* Packet n of client c found the queue full in domain d, which at least   *)
(* MaxSize earlier packets of the client had entered.                      *)
Overflowed(d, c, n) ==
  /\ <<d, c, n>> \in dropped
  /\ Cardinality({m \in 1..n - 1 : <<d, c, m>> \notin dropped}) >= MaxSize

(* A client that has kept its domain, and was not left without a route,    *)
(* loses packets only to a full queue: the others wait in its domain or    *)
(* have been sent, also those from before the first routes.                *)
NotLost ==
  \A c \in DOMAIN route \ moved : \A n \in 1..oseq[c] :
    LET d == DomainOf(c) IN
    Waits(d, c, n) \/ Overflowed(d, c, n) \/ \E b \in BSs : sent[c][n][b] > 0

(* The clients scheduler d does not serve.  The optimizer's clients without *)
(* a route, whose packets go to every domain, are not among them.          *)
Elsewhere(d) == (IF mode = "Optimizer" THEN DOMAIN route ELSE Clients) \ served[d]

(* Between two updates a scheduler keeps at most one packet of all the     *)
(* clients it does not serve, the one that ReadTun had in hand: whatever   *)
(* else came by an old route was cleared.  That goes for a domain with no  *)
(* clients too, which ComputeRoutes does not tell; only where the          *)
(* optimizer takes routes away can such a domain keep more.                *)
AtMostOneStale ==
  todo = {} =>
    \A d \in Domains : (mode = "Optimizer" => ServedBy(d) # {}) =>
      \A c, c2 \in Elsewhere(d) :
        \A i \in DOMAIN queues[d][c], j \in DOMAIN queues[d][c2] : c = c2 /\ i = j

=============================================================================
