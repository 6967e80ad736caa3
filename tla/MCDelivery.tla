------------------------------ MODULE MCDelivery -----------------------------
(* Instances of Delivery for TLC. *)
EXTENDS Delivery, TLC
CONSTANTS c1, c2, c3, a1, a2, a3
Symmetry == Permutations({c1, c2, c3}) \cup Permutations({a1, a2, a3})
=============================================================================
