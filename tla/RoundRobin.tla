----------------------------- MODULE RoundRobin -----------------------------
(***************************************************************************)
(* What a PktScheduler promises to the rest of the program: deficit round  *)
(* robin with packets that arrive, rounds and updates that each happen at  *)
(* once.  A round gives a client its quantum on top of the credit it has   *)
(* left and takes as many packets from its queue, in order, as that pays   *)
(* for.  No other step but an update that drops the client takes packets   *)
(* away.  Locks, the list of active clients and the several steps of each  *)
(* call are module PktScheduler's, which implements this one.              *)
(***************************************************************************)
EXTENDS FairShare, Sequences

CONSTANTS Clients, ClientIds, MaxSize, MinThroughput, Lens, ThroughputMaps,
          Quantum(_), MaxSeq

VARIABLES
  queues,  (* the packets queued for each client                           *)
  rates,   (* the rate of each client that is served                       *)
  quanta,  (* the time a round gives each of them                          *)
  credit,  (* the time left to each client                                 *)
  oseq     (* the number of the last packet of each client                 *)

vars == <<queues, rates, quanta, credit, oseq>>

(* The time the packets of s take at rate thr. *)
TimeOf(s, thr) == SumFunction([i \in DOMAIN s |-> Duration(s[i].len, thr)])

Init ==
  /\ queues = [c \in Clients |-> <<>>]
  /\ rates = [c \in ClientIds |-> MinThroughput]
  /\ quanta = EqualTime(rates)
  /\ credit = [c \in Clients |-> 0]
  /\ oseq = [c \in Clients |-> 0]

(* A packet may be lost only if the client is not served or as many as     *)
(* MaxSize packets are waiting.                                            *)
Arrive(c, len) ==
  /\ oseq[c] < MaxSeq
  /\ oseq' = [oseq EXCEPT ![c] = @ + 1]
  /\ \/ queues' = [queues EXCEPT ![c] = Append(@, [seq |-> oseq[c] + 1, len |-> len])]
     \/ /\ c \notin DOMAIN rates \/ Len(queues[c]) >= MaxSize
        /\ UNCHANGED queues
  /\ UNCHANGED <<rates, quanta, credit>>

(* The first n packets are taken.  Either these are all, and the time that *)
(* is left is forfeited, or it does not do for the next.                   *)
Round(c, n) ==
  LET q == queues[c]
      left == credit[c] + quanta[c] - TimeOf(SubSeq(q, 1, n), rates[c])
  IN
  /\ left >= 0
  /\ \/ n = Len(q) /\ credit' = [credit EXCEPT ![c] = 0]
     \/ /\ n < Len(q) /\ left < Duration(q[n + 1].len, rates[c])
        /\ credit' = [credit EXCEPT ![c] = left]
  /\ queues' = [queues EXCEPT ![c] = SubSeq(q, n + 1, Len(q))]
  /\ UNCHANGED <<rates, quanta, oseq>>

(* The clients of thr are served from now on; those of others are dropped. *)
Update(thr) ==
  /\ rates' = thr
  /\ quanta' = Quantum(thr)
  /\ credit' = [c \in Clients |-> 0]
  /\ queues' = [c \in Clients |-> IF c \in DOMAIN thr THEN queues[c] ELSE <<>>]
  /\ UNCHANGED oseq

Next ==
  \/ \E c \in Clients, len \in Lens : Arrive(c, len)
  \/ \E c \in DOMAIN rates : \E n \in 0..Len(queues[c]) : Round(c, n)
  \/ \E thr \in ThroughputMaps : Update(thr)

Spec == Init /\ [][Next]_vars

=============================================================================
