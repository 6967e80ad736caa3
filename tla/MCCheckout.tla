----------------------------- MODULE MCCheckout -----------------------------
(* Instances of Checkout for TLC. *)
EXTENDS Checkout, TLC
CONSTANTS b1, b2, s1, k1, k2, c1, c2

OwnerOf(p) == IF p = 1 THEN s1 ELSE b1
MCOwner == [p \in Product |-> OwnerOf(p)]
MCShipping == [standard |-> 1]
ConnSymmetry == Permutations(Conn)
=============================================================================
