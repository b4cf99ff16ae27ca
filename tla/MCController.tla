---------------------------- MODULE MCController ----------------------------
(* Clients and base stations, each of a domain or two in the same one. *)
EXTENDS Controller, TLC

CONSTANTS c1, c2, b1, b2, b3, d1, d2

(* Two channels, one of them used by two base stations. *)
SharedDomain == (b1 :> d1) @@ (b2 :> d1) @@ (b3 :> d2)

(* The clients are alike, and so are the base stations of one domain. *)
Symmetry == Permutations(Clients) \cup Permutations({b1, b2})

=============================================================================
