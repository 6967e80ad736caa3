------------------------------ MODULE MCAccount ------------------------------
(* Instances of Account for TLC. *)
EXTENDS Account, TLC
CONSTANTS c1, c2, e1, e2, p1, p2

Symmetry == Permutations(Conn) \cup Permutations(Email)
            \cup Permutations(Password)
=============================================================================
