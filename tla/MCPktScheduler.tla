--------------------------- MODULE MCPktScheduler ---------------------------
(* Small instances of PktScheduler for TLC. *)
EXTENDS SchedRefinement, TLC

CONSTANTS f1, f2, c1, c2

(* A domain every client always belongs to: one base station, or all of    *)
(* them in one contention domain.                                          *)
EveryClient == {Clients}

(* A domain that clients join and leave; ComputeRoutes calls               *)
(* ComputeQuantum only when at least one client is left.                   *)
SomeClients == (SUBSET Clients) \ {{}}

ForwarderSymmetry == Permutations(Forwarders)

=============================================================================
