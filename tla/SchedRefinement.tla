--------------------------- MODULE SchedRefinement ---------------------------
(***************************************************************************)
(* PktScheduler implements RoundRobin.  A round takes effect when Dequeue  *)
(* sees in its last PeekTopPktSize that it is over: until then the packets *)
(* of its batch count as queued, and neither quantum nor charges count.    *)
(* ComputeQuantum takes effect in its first step: queues it has still to   *)
(* clear count as empty and the quanta as computed.                        *)
(***************************************************************************)
EXTENDS PktScheduler

(* Forwarder f is in the loop of Dequeue, in a round of client c. *)
InRound(f, c) == owner = f /\ cur[f] = c /\ pc[f] \in {"peek", "pop"}

(* Forwarder f has seen the queue empty and has yet to reset the counter. *)
Forfeits(f, c) == owner = f /\ cur[f] = c /\ pc[f] = "finish" /\ top[f] = 0

QueuesBar ==
  [c \in Clients |->
     IF c \in toClear THEN <<>>
     ELSE IF \E f \in Forwarders : InRound(f, c) THEN pkts[owner] \o queues[c]
     ELSE queues[c]]

CreditBar ==
  [c \in Clients |->
     IF \E f \in Forwarders : InRound(f, c)
     THEN counter[c] + BatchTime(owner) - quantum[c]
     ELSE IF \E f \in Forwarders : Forfeits(f, c) THEN 0
     ELSE counter[c]]

QuantaBar ==
  IF owner = ComputeRoutes THEN Quantum(Rates) ELSE [c \in served |-> quantum[c]]

DRR == INSTANCE RoundRobin
         WITH queues <- QueuesBar, rates <- Rates, quanta <- QuantaBar,
              credit <- CreditBar

(* Enqueue, Dequeue and ComputeQuantum, each in several steps that the     *)
(* other threads come between, look as if each happened at once: every     *)
(* packet leaves in order, in one round that pays for it in full, a round  *)
(* stops only when it must, and no step but ComputeQuantum loses a packet. *)
ImplementsRoundRobin == DRR!Spec

=============================================================================
