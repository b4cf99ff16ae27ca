------------------------------ MODULE MCRouting ------------------------------
(* Small instances of Routing for TLC. *)
EXTENDS Routing, TLC

CONSTANTS b1, b2, c1, c2, d1, d2

TwoBSs == <<b1, b2>>
TwoClients == <<c1, c2>>

(* All base stations on different channels. *)
OwnDomains == (b1 :> d1) @@ (b2 :> d2)

=============================================================================
